---- MODULE Spec2Model ----
(***************************************************************************)
(* Email triage pipeline: the weighted spam scorer (spam-detector.ts), the *)
(* summarizer and reply generator wrappers around the completion services, *)
(* and the master orchestrator that fans the four phase-1 analyzers out,   *)
(* gates reply generation on the spam verdict and derives the priority.    *)
(*                                                                         *)
(* Scores are kept in hundredths (0.30 is 30).  The IEEE doubles the code  *)
(* adds differ from the exact sums by at most one unit in the last place   *)
(* (0.10+0.35 is 0.44999999999999996) and never across 0.5 or 1.           *)
(*                                                                         *)
(* A nullable value is a sequence of length at most one: Null is <<>>.     *)
(*                                                                         *)
(* The orchestrator (orchestrator/master.ts) is modelled from the          *)
(* specification, sections 4.1, 4.4 and 5; the spam scorer, the            *)
(* summarizer, the language detector, the reply generator and the calendar *)
(* gate are modelled from their code.  JavaScript runs to completion: a    *)
(* suspended analyzer resumes only when processEmail has no synchronous    *)
(* step left.                                                              *)
(*                                                                         *)
(* The calendar extractor and the ICS serializer are also modelled on      *)
(* their own, from their code: text is a sequence of symbols, instants are *)
(* minutes, and what chrono.parse finds is part of the email; the          *)
(* duration, location and title patterns run on the characters of the      *)
(* text.  The HTTP endpoint and the command line are modelled from         *)
(* server.ts and index.ts up to and after their await on processEmail.     *)
(***************************************************************************)
EXTENDS Integers, Sequences, FiniteSets, TLC

\* ------------------------------------------------------------ bounds
\* most suspicious links / urgency phrases one email matches
MaxLinks == 3
MaxWords == 4

Null == << >>
Some(v) == << v >>

Min(a, b) == IF a <= b THEN a ELSE b

VARIABLES
    \* --- detectSpam called on its own
    spamIn,         \* what the five check* functions find in the email
    spamOut,        \* Null, or Some(SpamResult)
    \* --- one processEmail run
    email,          \* the immutable input, as the signals the analyzers read
    openaiKey,      \* OPENAI_API_KEY was set when the summarizer module loaded
    suspends,       \* Spam/Calendar |-> the analyzer awaits before it settles
    pc,             \* position of processEmail
    launched,       \* how many phase-1 analyzers processEmail has invoked
    sumPc, sumRes,  \* summarize(): position and returned SummarizerResult
    spamPc, spamRes,
    calPc, calRes,
    langPc, langRes,
    replyPc, replyCalls, replyRes,
    actions_taken,  \* the action log of the run
    result,         \* Null, or Some(OrchestrationResult)
    \* --- extractCalendarEvent called on its own
    calIn,          \* the email, as text and as what the date parser finds
    calNow,         \* the wall clock, in minutes
    calOut,         \* one record per call: when it ran and what it returned
    chronoCalls,    \* how often chrono.parse has been called
    \* --- escapeICSText called on its own
    escIn,          \* the text of a SUMMARY, LOCATION or DESCRIPTION field
    escOut,         \* Null, or Some(escaped text)
    \* --- one POST /api/process-email request
    httpReq,        \* req.body as express.json() delivers it
    httpPc,         \* position of the route handler
    httpCalls,      \* the arguments of each masterOrchestrator.processEmail call
    httpOutcome,    \* Null, or Some(what the processEmail promise settled with)
    httpResponses,  \* the responses sent, in order
    \* --- one run of the command line entry point
    cliArgs,        \* process.argv.slice(2), by what main() reads of it
    cliInput,       \* what readFileSync / stdin delivers
    cliPc,          \* position of main()
    cliChunks,      \* how many chunks of process.stdin main() has pushed
    cliCalls,       \* the arguments of each processEmail call
    cliExit,        \* Null while the process runs, else Some(exit code)
    \* --- extractDuration called on its own
    durIn,          \* the text
    durOut,         \* Null, or Some(minutes)
    \* --- detectTone called on its own
    toneIn,         \* subject and body of the email
    toneOut,        \* Null, or Some(tone)
    \* --- extractLocation called on its own
    locIn,          \* the text
    locOut          \* Null, or Some(what extractLocation returned)

spamVars == << spamIn, spamOut >>
calVars == << calIn, calNow, calOut, chronoCalls >>
escVars == << escIn, escOut >>
httpVars == << httpReq, httpPc, httpCalls, httpOutcome, httpResponses >>
cliVars == << cliArgs, cliInput, cliPc, cliChunks, cliCalls, cliExit >>
durVars == << durIn, durOut >>
toneVars == << toneIn, toneOut >>
locVars == << locIn, locOut >>
sideVars == << calVars, escVars, httpVars, cliVars, durVars, toneVars, locVars >>
orchVars == << email, openaiKey, suspends, pc, launched, sumPc, sumRes, spamPc,
               spamRes, calPc, calRes, langPc, langRes, replyPc, replyCalls,
               replyRes, actions_taken, result >>
vars == << spamVars, orchVars, sideVars >>

\* ------------------------------------------------------------ spam scorer
\* the weight the stale comment of the detector's test still names for the
\* known patterns (0.15)
WEIGHTS_stale == [ senderDomainMismatch |-> 30,
                   suspiciousLinks      |-> 25,
                   urgencyWords         |-> 20,
                   grammarIssues        |-> 10,
                   knownSpamPatterns    |-> 15 ]

\* a weight table in which the known patterns alone reach the threshold
WEIGHTS_patternsDecisive == [ senderDomainMismatch |-> 30,
                              suspiciousLinks      |-> 25,
                              urgencyWords         |-> 20,
                              grammarIssues        |-> 10,
                              knownSpamPatterns    |-> 50 ]

\* spam-detector.ts, WEIGHTS, in hundredths
WEIGHTS == [ senderDomainMismatch |-> 30,
             suspiciousLinks      |-> 25,
             urgencyWords         |-> 20,
             grammarIssues        |-> 10,
             knownSpamPatterns    |-> 35 ]

FeatureNames == { "senderDomainMismatch", "suspiciousLinks", "urgencyWords",
                  "grammarIssues", "knownSpamPatterns" }

\* isSpam: score >= 0.5
SpamThreshold == 50
\* Math.min(score, 1)
ScoreCap == 100

\* the matches checkSuspiciousLinks / checkUrgencyWords collect, in order
LinkNames == << "link1", "link2", "link3", "link4", "link5" >>
WordNames == << "word1", "word2", "word3", "word4", "word5", "word6" >>

\* What the five check* functions report for an email.
Checks(maxLinks, maxWords) ==
    [ mismatch : BOOLEAN,
      links    : { SubSeq(LinkNames, 1, n) : n \in 0..maxLinks },
      words    : { SubSeq(WordNames, 1, n) : n \in 0..maxWords },
      grammar  : BOOLEAN,
      patterns : BOOLEAN ]

\* a threshold that only the four-feature sums reach
isSpamOf_cautious(score) == score >= 80

\* a strict comparison in place of >=
isSpamOf_strict(score) == score > SpamThreshold

\* isSpam: score >= 0.5, on the sum before it is capped
isSpamOf(score) == score >= SpamThreshold

\* score: Math.min(score, 1)
capScore(score) == Min(score, ScoreCap)

\* every match listed, without the slice
Slice_whole(s, n) == s

\* links.slice(0, 2) / words.slice(0, 3)
Slice(s, n) == SubSeq(s, 1, Min(n, Len(s)))

detectSpam(c) ==
    LET features == [ senderDomainMismatch |-> c.mismatch,
                      suspiciousLinks      |-> Len(c.links) > 0,
                      urgencyWords         |-> Len(c.words) > 0,
                      grammarIssues        |-> c.grammar,
                      knownSpamPatterns    |-> c.patterns ]
        Add(acc, f, reason) ==
            IF features[f]
            THEN [ score   |-> acc.score + WEIGHTS[f],
                   reasons |-> Append(acc.reasons, reason) ]
            ELSE acc
        a0 == [ score |-> 0, reasons |-> << >> ]
        a1 == Add(a0, "senderDomainMismatch",
                  [ text |-> "Sender domain mismatch detected", items |-> << >> ])
        a2 == Add(a1, "suspiciousLinks",
                  [ text |-> "Suspicious links found", items |-> Slice(c.links, 2) ])
        a3 == Add(a2, "urgencyWords",
                  [ text |-> "Urgency language detected", items |-> Slice(c.words, 3) ])
        a4 == Add(a3, "grammarIssues",
                  [ text |-> "Common spam grammar patterns detected", items |-> << >> ])
        a5 == Add(a4, "knownSpamPatterns",
                  [ text |-> "Known spam/phishing patterns detected", items |-> << >> ])
    IN  [ score    |-> capScore(a5.score),
          isSpam   |-> isSpamOf(a5.score),
          reasons  |-> a5.reasons,
          features |-> features ]

\* ------------------------------------------------------------ detectSpam alone
SpamInit ==
    /\ spamIn \in Checks(MaxLinks, MaxWords)
    /\ spamOut = Null

\* const result = await detectSpam(email)
DetectSpamCall ==
    /\ spamOut = Null
    /\ spamOut' = Some(detectSpam(spamIn))
    /\ UNCHANGED spamIn

\* ------------------------------------------------------------ model output
\* JSON.parse and String.prototype.trim on the service outputs the runs draw
\* from.  parsed = Null: JSON.parse throws.  A field that is Null is absent
\* from the parsed object.
ParseTable ==
    { [ raw     |-> "{\"summary\":\"Sum\",\"keyPoints\":[\"k\"],\"actionItems\":[\"a\"]}",
        trimmed |-> "{\"summary\":\"Sum\",\"keyPoints\":[\"k\"],\"actionItems\":[\"a\"]}",
        parsed  |-> Some([ summary |-> Some("Sum"), keyPoints |-> Some(<<"k">>),
                           actionItems |-> Some(<<"a">>),
                           reply |-> Null, tone |-> Null,
                           language |-> Null, languageName |-> Null,
                           confidence |-> Null ]) ],
      [ raw     |-> "{}",
        trimmed |-> "{}",
        parsed  |-> Some([ summary |-> Null, keyPoints |-> Null,
                           actionItems |-> Null,
                           reply |-> Null, tone |-> Null,
                           language |-> Null, languageName |-> Null,
                           confidence |-> Null ]) ],
      [ raw     |-> "{\"language\":\"de\",\"languageName\":\"German\",\"confidence\":0.95}",
        trimmed |-> "{\"language\":\"de\",\"languageName\":\"German\",\"confidence\":0.95}",
        parsed  |-> Some([ summary |-> Null, keyPoints |-> Null,
                           actionItems |-> Null,
                           reply |-> Null, tone |-> Null,
                           language |-> Some("de"), languageName |-> Some("German"),
                           confidence |-> Some([ num |-> 95, den |-> 100 ]) ]) ],
      [ raw     |-> " plain text ",
        trimmed |-> "plain text",
        parsed  |-> Null ],
      [ raw     |-> "",
        trimmed |-> "",
        parsed  |-> Null ],
      [ raw     |-> "{\"reply\":\"Re\",\"tone\":\"formal\"}",
        trimmed |-> "{\"reply\":\"Re\",\"tone\":\"formal\"}",
        parsed  |-> Some([ summary |-> Null, keyPoints |-> Null,
                           actionItems |-> Null,
                           reply |-> Some("Re"), tone |-> Some("formal"),
                           language |-> Null, languageName |-> Null,
                           confidence |-> Null ]) ],
      [ raw     |-> "{\"reply\":\"Re\"}",
        trimmed |-> "{\"reply\":\"Re\"}",
        parsed  |-> Some([ summary |-> Null, keyPoints |-> Null,
                           actionItems |-> Null,
                           reply |-> Some("Re"), tone |-> Null,
                           language |-> Null, languageName |-> Null,
                           confidence |-> Null ]) ],
      [ raw     |-> "{\"reply\":\"Re\",\"tone\":\"friendly\"}",
        trimmed |-> "{\"reply\":\"Re\",\"tone\":\"friendly\"}",
        parsed  |-> Some([ summary |-> Null, keyPoints |-> Null,
                           actionItems |-> Null,
                           reply |-> Some("Re"), tone |-> Some("friendly"),
                           language |-> Null, languageName |-> Null,
                           confidence |-> Null ]) ] }

JSONparse(text) == (CHOOSE r \in ParseTable : r.raw = text).parsed
Trim(text) == (CHOOSE r \in ParseTable : r.raw = text).trimmed

\* x || fallback, for a field of a parsed object
OrElse(field, fallback) ==
    IF field = Null THEN fallback
    ELSE IF field[1] = "" THEN fallback ELSE field[1]

\* x || [], for an array field: an array is never falsy
OrElseArray(field, fallback) ==
    IF field = Null THEN fallback ELSE field[1]

\* what ollama.generate / chat.completions.create resolve with
SummaryOutputs ==
    { "{\"summary\":\"Sum\",\"keyPoints\":[\"k\"],\"actionItems\":[\"a\"]}",
      "{}", " plain text " }
ReplyOutputs ==
    { "{\"reply\":\"Re\",\"tone\":\"formal\"}", "{\"reply\":\"Re\"}",
      "{\"reply\":\"Re\",\"tone\":\"friendly\"}", "", " plain text " }

\* ------------------------------------------------------------ summarizer
\* summarizeWithOllama, after ollama.generate resolved with response.response
summarizeWithOllama(response) ==
    LET parsed == JSONparse(response)
    IN  IF parsed # Null
        THEN [ summary     |-> OrElse(parsed[1].summary, ""),
               keyPoints   |-> OrElseArray(parsed[1].keyPoints, << >>),
               actionItems |-> OrElseArray(parsed[1].actionItems, << >>) ]
        ELSE [ summary     |-> Trim(response),
               keyPoints   |-> << >>,
               actionItems |-> << >> ]

\* summarizeWithOpenAI, after chat.completions.create resolved
summarizeWithOpenAI(messageContent) ==
    LET content == IF messageContent = "" THEN "{}" ELSE messageContent
        parsed  == JSONparse(content)
    IN  IF parsed # Null
        THEN [ summary     |-> OrElse(parsed[1].summary, ""),
               keyPoints   |-> OrElseArray(parsed[1].keyPoints, << >>),
               actionItems |-> OrElseArray(parsed[1].actionItems, << >>) ]
        ELSE [ summary     |-> Trim(content),
               keyPoints   |-> << >>,
               actionItems |-> << >> ]

\* ------------------------------------------------------------ reply generator
detectTone(e) ==
    IF e.formal > e.casual THEN "formal"
    ELSE IF e.casual > e.formal THEN "casual"
    ELSE "neutral"

\* generateReply, after chat.completions.create resolved
generateReply(e, messageContent) ==
    LET detectedTone == detectTone(e)
        content == IF messageContent = "" THEN "{}" ELSE messageContent
        parsed  == JSONparse(content)
    IN  IF parsed # Null
        THEN [ reply |-> OrElse(parsed[1].reply, ""),
               tone  |-> OrElse(parsed[1].tone, detectedTone) ]
        ELSE [ reply |-> Trim(content),
               tone  |-> detectedTone ]

\* ------------------------------------------------------------ the email
\* The emails a processEmail run is given, as what each analyzer reads from
\* subject, body and sender.
SampleChecks ==
    { \* nothing triggers: score 0
      [ mismatch |-> FALSE, links |-> << >>, words |-> << >>,
        grammar |-> FALSE, patterns |-> FALSE ],
      \* 0.25 + 0.20: just below the threshold
      [ mismatch |-> FALSE, links |-> <<"link1">>, words |-> <<"word1">>,
        grammar |-> FALSE, patterns |-> FALSE ],
      \* 0.30 + 0.20: exactly the threshold
      [ mismatch |-> TRUE, links |-> << >>, words |-> <<"word1">>,
        grammar |-> FALSE, patterns |-> FALSE ] }

\* most date candidates / tone indicators an email of a run carries
MaxDates == 1
MaxTone == 1

Emails ==
    { e \in [ checks     : SampleChecks,
              meeting    : BOOLEAN,       \* hasMeetingIndicators(subject + body)
              dates      : 0..MaxDates,   \* chrono.parse(...).length
              urgent     : BOOLEAN,       \* an urgent keyword is present
              newsletter : BOOLEAN,       \* a newsletter keyword is present
              formal     : 0..MaxTone,    \* formal indicators found
              casual     : 0..MaxTone ]   \* casual indicators found
        : e.formal + e.casual <= MaxTone }

\* ------------------------------------------------------------ calendar
\* extractCalendarEvent as the orchestrator sees it: null or an event.  What
\* the event holds is extractCalendarEventAt, further down.
extractCalendarEvent(e) ==
    IF ~e.meeting THEN Null
    ELSE IF e.dates = 0 THEN Null
    ELSE Some([ date |-> 1 ])

\* ------------------------------------------------------------ language
\* A confidence or a score is a fraction num / den.
\* the word lists of detectLanguageHeuristic, in their order, each with the
\* number of words it holds
LanguagePatterns ==
    << [ lang |-> "de", name |-> "German",     words |-> 12 ],
       [ lang |-> "fr", name |-> "French",     words |-> 11 ],
       [ lang |-> "es", name |-> "Spanish",    words |-> 9 ],
       [ lang |-> "tr", name |-> "Turkish",    words |-> 9 ],
       [ lang |-> "it", name |-> "Italian",    words |-> 8 ],
       [ lang |-> "pt", name |-> "Portuguese", words |-> 8 ],
       [ lang |-> "nl", name |-> "Dutch",      words |-> 8 ],
       [ lang |-> "ru", name |-> "Russian",    words |-> 7 ],
       [ lang |-> "ja", name |-> "Japanese",   words |-> 6 ],
       [ lang |-> "zh", name |-> "Chinese",    words |-> 6 ],
       [ lang |-> "ko", name |-> "Korean",     words |-> 4 ],
       [ lang |-> "ar", name |-> "Arabic",     words |-> 4 ] >>

\* Math.min(0.6 + score * 0.4, 0.95)
heuristicConfidence(score) ==
    IF (6 * score.den + 4 * score.num) * 100 > 95 * 10 * score.den
    THEN [ num |-> 95, den |-> 100 ]
    ELSE [ num |-> 6 * score.den + 4 * score.num, den |-> 10 * score.den ]

RECURSIVE heuristicFrom(_, _, _, _)
\* the loop of detectLanguageHeuristic from list k on; matches[k] is the
\* number of words of list k the lower-cased text includes
heuristicFrom(matches, k, maxScore, detected) ==
    IF k > Len(LanguagePatterns) THEN detected
    ELSE LET score == [ num |-> matches[k], den |-> LanguagePatterns[k].words ]
         IN  IF score.num * maxScore.den > maxScore.num * score.den
             THEN heuristicFrom(matches, k + 1, score,
                                [ language |-> LanguagePatterns[k].lang,
                                  languageName |-> LanguagePatterns[k].name,
                                  confidence |-> heuristicConfidence(score) ])
             ELSE heuristicFrom(matches, k + 1, maxScore, detected)

detectLanguageHeuristic(matches) ==
    heuristicFrom(matches, 1, [ num |-> 0, den |-> 1 ],
                  [ language |-> "en", languageName |-> "English",
                    confidence |-> [ num |-> 7, den |-> 10 ] ])

\* x || fallback, for a number field of a parsed object
OrElseNumber(field, fallback) ==
    IF field = Null THEN fallback
    ELSE IF field[1].num = 0 THEN fallback ELSE field[1]

\* detectLanguage after ollama.generate resolved with response.response: the
\* fields of the parsed answer, or the heuristic when JSON.parse throws
detectLanguage(response, matches) ==
    LET parsed == JSONparse(response)
    IN  IF parsed # Null
        THEN [ language     |-> OrElse(parsed[1].language, "en"),
               languageName |-> OrElse(parsed[1].languageName, "English"),
               confidence   |-> OrElseNumber(parsed[1].confidence,
                                             [ num |-> 9, den |-> 10 ]) ]
        ELSE detectLanguageHeuristic(matches)

\* what ollama.generate resolves with for the language prompt
LanguageOutputs ==
    { "{\"language\":\"de\",\"languageName\":\"German\",\"confidence\":0.95}",
      " plain text " }

\* what the text of an email of a run holds of the twelve word lists: none
\* of their words
LanguageMatches == { [ k \in 1..Len(LanguagePatterns) |-> 0 ] }

\* ------------------------------------------------------------ text
\* Text is a sequence of symbols.  A symbol is one of the characters the ICS
\* escaping reads (backslash, semicolon, comma, line feed), a carriage
\* return, the letter n, or a run of other characters: a word, an address.
\* most symbols of a field text escapeICSText is applied to on its own
MaxText == 3

RECURSIVE replaceAll(_, _, _)
\* String.prototype.replace with a one-character global pattern; the text is
\* rewritten half by half
replaceAll(text, ch, by) ==
    IF text = << >> THEN << >>
    ELSE IF Len(text) = 1 THEN (IF Head(text) = ch THEN by ELSE text)
    ELSE replaceAll(SubSeq(text, 1, Len(text) \div 2), ch, by)
         \o replaceAll(SubSeq(text, Len(text) \div 2 + 1, Len(text)), ch, by)

escapeICSText_backslashLast(text) ==
    replaceAll(replaceAll(replaceAll(replaceAll(text,
        ";", << "\\", ";" >>),
        ",", << "\\", "," >>),
        "\n", << "\\", "n" >>),
        "\\", << "\\", "\\" >>)

\* four passes over the whole text, the backslash first
escapeICSText(text) ==
    replaceAll(replaceAll(replaceAll(replaceAll(text,
        "\\", << "\\", "\\" >>),
        ";", << "\\", ";" >>),
        ",", << "\\", "," >>),
        "\n", << "\\", "n" >>)

\* formatICSDate: the instant in the basic format YYYYMMDDTHHMMSSZ
formatICSDate(date) == << "T", ToString(date), "Z" >>

\* generateUID: `${Date.now()}-${random}@email-orchestrator`
generateUID(now, random) ==
    << ToString(now), "-", ToString(random), "@email-orchestrator" >>

RECURSIVE join(_, _)
\* Array.prototype.join
join(lines, sep) ==
    IF lines = << >> THEN << >>
    ELSE IF Len(lines) = 1 THEN Head(lines)
    ELSE Head(lines) \o sep \o join(Tail(lines), sep)

attendeeLines_organizerOnly(attendees) ==
    IF attendees = << >> THEN << >>
    ELSE << << "ATTENDEE;RSVP=TRUE", ":", "mailto:", Head(attendees) >> >>

RECURSIVE attendeeLines(_)
\* for (const attendee of event.attendees) icsLines.push(...)
attendeeLines(attendees) ==
    IF attendees = << >> THEN << >>
    ELSE << << "ATTENDEE;RSVP=TRUE", ":", "mailto:", Head(attendees) >> >>
         \o attendeeLines(Tail(attendees))

\* An absent endDate defaults to one hour after the start.
DefaultEventMinutes == 60

\* generateICS(event), called at `now` with `random` drawn for the UID.  The
\* event's location, endDate and description are nullable; a string that is
\* empty is as falsy as one that is absent.
generateICS(event, now, random) ==
    LET startDate == event.date
        endDate == IF event.endDate # Null THEN event.endDate[1]
                   ELSE startDate + DefaultEventMinutes
        head == << << "BEGIN", ":", "VCALENDAR" >>,
                   << "VERSION", ":", "2.0" >>,
                   << "PRODID", ":", "-//Email Orchestrator//EN" >>,
                   << "CALSCALE", ":", "GREGORIAN" >>,
                   << "METHOD", ":", "PUBLISH" >>,
                   << "BEGIN", ":", "VEVENT" >>,
                   << "UID", ":" >> \o generateUID(now, random),
                   << "DTSTAMP", ":" >> \o formatICSDate(now),
                   << "DTSTART", ":" >> \o formatICSDate(startDate),
                   << "DTEND", ":" >> \o formatICSDate(endDate),
                   << "SUMMARY", ":" >> \o escapeICSText(event.title) >>
        loc == IF event.location # Null /\ event.location[1] # << >>
               THEN << << "LOCATION", ":" >> \o escapeICSText(event.location[1]) >>
               ELSE << >>
        desc == IF event.description # Null /\ event.description[1] # << >>
                THEN << << "DESCRIPTION", ":" >>
                        \o escapeICSText(event.description[1]) >>
                ELSE << >>
        tail == << << "END", ":", "VEVENT" >>, << "END", ":", "VCALENDAR" >> >>
    IN  join(head \o loc \o desc \o attendeeLines(event.attendees) \o tail,
             << "\r\n" >>)

\* --- escapeICSText on every text of at most MaxText symbols
EscAlphabet == { "\\", ";", ",", "\n", "\r", "n", "a" }

RECURSIVE Texts(_)
Texts(n) ==
    IF n = 0 THEN { << >> }
    ELSE Texts(n - 1)
         \cup { Append(t, c) : t \in { u \in Texts(n - 1) : Len(u) = n - 1 },
                               c \in EscAlphabet }

EscInit ==
    /\ escIn \in Texts(MaxText)
    /\ escOut = Null

EscIdle ==
    /\ escIn = << >>
    /\ escOut = Null

\* `SUMMARY:${escapeICSText(event.title)}`
EscapeCall ==
    /\ escOut = Null
    /\ escOut' = Some(escapeICSText(escIn))
    /\ UNCHANGED escIn

\* ------------------------------------------------------------ calendar extractor
\* extractCalendarEvent reads the email as text (sender, subject, body: symbol
\* sequences, a blank between any two symbols).  The duration and location
\* patterns are applied to the characters of that text; what chrono.parse, a
\* library, finds in it the email carries as found (dates).  A location is a
\* sequence of characters.

\* latest wall-clock minute a call is made at
MaxNow == 1

\* String.prototype.toLowerCase on the symbols the sample emails use
LowerCased ==
    "Team" :> "team"
    @@ "Calendar" :> "calendar"
    @@ "John@Acme.com" :> "john@acme.com"
    @@ "Ann" :> "ann"
    @@ "Numbers" :> "numbers"
    @@ "Budget" :> "budget"
    @@ "Re:" :> "re:"
    @@ "RE:" :> "re:"
    @@ "Fwd:" :> "fwd:"
    @@ "Software:" :> "software:"
    @@ "Plan" :> "plan"
    @@ "Here" :> "here"
    @@ "Meeting" :> "meeting"
    @@ "Bob@X.com" :> "bob@x.com"
    @@ "Room" :> "room"
    @@ "5B" :> "5b"
    @@ "12B" :> "12b"
    @@ "Venue:" :> "venue:"
    @@ "HQ2" :> "hq2"
    @@ "A1" :> "a1"
    @@ "Zoom:" :> "zoom:"
    @@ "'Luigi'" :> "'luigi'"
    @@ "AT" :> "at"
    @@ "Dear" :> "dear"
    @@ ":D" :> ":d"

ToLower(sym) == IF sym \in DOMAIN LowerCased THEN LowerCased[sym] ELSE sym

\* EMAIL_REGEX: the symbols of the sample emails it matches
Addresses == { "John@Acme.com", "john@acme.com", "Bob@X.com", "bob@x.com",
               "ann@x.com", "carol@x.com" }

IsAddress(sym) == sym \in Addresses

\* text.match(EMAIL_REGEX) || []
matchAddresses(text) == SelectSeq(text, IsAddress)

RECURSIVE addAll(_, _)
\* Set.prototype.add for each item; Array.from(set) is the insertion order
addAll(seen, items) ==
    IF items = << >> THEN seen
    ELSE addAll(IF \E i \in 1..Len(seen) : seen[i] = ToLower(Head(items))
                THEN seen
                ELSE Append(seen, ToLower(Head(items))),
                Tail(items))

extractAttendees(e) ==
    LET emails == matchAddresses(e.from \o e.body)
        senderMatch == matchAddresses(e.from)
        first == IF senderMatch # << >> THEN << ToLower(senderMatch[1]) >>
                 ELSE << >>
    IN  addAll(first, emails)

\* words and phrases the five indicator patterns match, lower-cased
MeetingIndicators ==
    { "meeting", "meet", "call", "conference", "discussion", "review", "sync",
      "standup", "catchup", "catch-up", "let's meet", "schedule", "scheduled",
      "invite", "invitation", "calendar", "join us", "please confirm" }

hasMeetingIndicators(text) ==
    \E i \in 1..Len(text) : ToLower(text[i]) \in MeetingIndicators

\* const text = `${email.subject} ${email.body}`
textOf(e) == e.subject \o e.body

\* --- the text as the patterns see it: one character after the other
\* The duration and location patterns have no word boundaries and match
\* inside words, so they are applied to the characters of the text.  A text
\* of characters is a sequence of one-character strings.

\* the characters of a symbol; a symbol that is not listed is one character
Spelled ==
    "Team" :> << "T", "e", "a", "m" >>
    @@ "Calendar" :> << "C", "a", "l", "e", "n", "d", "a", "r" >>
    @@ "John@Acme.com" :> << "J", "o", "h", "n", "@", "A", "c", "m", "e", ".", "c", "o", "m" >>
    @@ "Ann" :> << "A", "n", "n" >>
    @@ "ann@x.com" :> << "a", "n", "n", "@", "x", ".", "c", "o", "m" >>
    @@ "Numbers" :> << "N", "u", "m", "b", "e", "r", "s" >>
    @@ "Budget" :> << "B", "u", "d", "g", "e", "t" >>
    @@ "review" :> << "r", "e", "v", "i", "e", "w" >>
    @@ "Re:" :> << "R", "e", ":" >>
    @@ "RE:" :> << "R", "E", ":" >>
    @@ "Fwd:" :> << "F", "w", "d", ":" >>
    @@ "Software:" :> << "S", "o", "f", "t", "w", "a", "r", "e", ":" >>
    @@ "update" :> << "u", "p", "d", "a", "t", "e" >>
    @@ "Plan" :> << "P", "l", "a", "n" >>
    @@ "carol@x.com" :> << "c", "a", "r", "o", "l", "@", "x", ".", "c", "o", "m" >>
    @@ "Here" :> << "H", "e", "r", "e" >>
    @@ "are" :> << "a", "r", "e" >>
    @@ "the" :> << "t", "h", "e" >>
    @@ "numbers" :> << "n", "u", "m", "b", "e", "r", "s" >>
    @@ "Meeting" :> << "M", "e", "e", "t", "i", "n", "g" >>
    @@ "about" :> << "a", "b", "o", "u", "t" >>
    @@ "roadmap" :> << "r", "o", "a", "d", "m", "a", "p" >>
    @@ "Bob@X.com" :> << "B", "o", "b", "@", "X", ".", "c", "o", "m" >>
    @@ "john@acme.com" :> << "j", "o", "h", "n", "@", "a", "c", "m", "e", ".", "c", "o", "m" >>
    @@ "let's meet" :> << "l", "e", "t", "'", "s", " ", "m", "e", "e", "t" >>
    @@ "with" :> << "w", "i", "t", "h" >>
    @@ "bye" :> << "b", "y", "e" >>
    @@ "in" :> << "i", "n" >>
    @@ "Room" :> << "R", "o", "o", "m" >>
    @@ "204" :> << "2", "0", "4" >>
    @@ "at" :> << "a", "t" >>
    @@ "5B" :> << "5", "B" >>
    @@ "zoom" :> << "z", "o", "o", "m" >>
    @@ "link" :> << "l", "i", "n", "k" >>
    @@ "https://zoom.us/j/1" :> << "h", "t", "t", "p", "s", ":", "/", "/", "z", "o", "o", "m", ".", "u", "s", "/", "j", "/", "1" >>
    @@ "for" :> << "f", "o", "r" >>
    @@ "hours" :> << "h", "o", "u", "r", "s" >>
    @@ "minutes" :> << "m", "i", "n", "u", "t", "e", "s" >>
    @@ "30" :> << "3", "0" >>
    @@ "office" :> << "o", "f", "f", "i", "c", "e" >>
    @@ "12B" :> << "1", "2", "B" >>
    @@ "Venue:" :> << "V", "e", "n", "u", "e", ":" >>
    @@ "HQ2" :> << "H", "Q", "2" >>
    @@ "place:" :> << "p", "l", "a", "c", "e", ":" >>
    @@ "A1" :> << "A", "1" >>
    @@ "Zoom:" :> << "Z", "o", "o", "m", ":" >>
    @@ "meet" :> << "m", "e", "e", "t" >>
    @@ "'Luigi'" :> << "'", "L", "u", "i", "g", "i", "'" >>
    @@ "hour" :> << "h", "o", "u", "r" >>
    @@ "hrs" :> << "h", "r", "s" >>
    @@ "min" :> << "m", "i", "n" >>
    @@ "days" :> << "d", "a", "y", "s" >>
    @@ "AT" :> << "A", "T" >>

Chars(sym) == IF sym \in DOMAIN Spelled THEN Spelled[sym] ELSE << sym >>

RECURSIVE charsOf(_)
\* the characters of a text, a blank between any two symbols; the text is
\* spelled half by half
charsOf(text) ==
    IF text = << >> THEN << >>
    ELSE IF Len(text) = 1 THEN Chars(Head(text))
    ELSE charsOf(SubSeq(text, 1, Len(text) \div 2)) \o << " " >>
         \o charsOf(SubSeq(text, Len(text) \div 2 + 1, Len(text)))

\* the lower-case form of a character
LowerCaseLetter ==
    "A" :> "a" @@ "B" :> "b" @@ "C" :> "c" @@ "D" :> "d" @@ "E" :> "e"
    @@ "F" :> "f" @@ "G" :> "g" @@ "H" :> "h" @@ "I" :> "i" @@ "J" :> "j"
    @@ "K" :> "k" @@ "L" :> "l" @@ "M" :> "m" @@ "N" :> "n" @@ "O" :> "o"
    @@ "P" :> "p" @@ "Q" :> "q" @@ "R" :> "r" @@ "S" :> "s" @@ "T" :> "t"
    @@ "U" :> "u" @@ "V" :> "v" @@ "W" :> "w" @@ "X" :> "x" @@ "Y" :> "y"
    @@ "Z" :> "z"

lowerChar(c) == IF c \in DOMAIN LowerCaseLetter THEN LowerCaseLetter[c] ELSE c

\* the i flag: a pattern is matched on the lower-cased characters of a text
lowerCase(s) == [ i \in 1..Len(s) |-> lowerChar(s[i]) ]

Digits == { "0", "1", "2", "3", "4", "5", "6", "7", "8", "9" }
Letters == { "a", "b", "c", "d", "e", "f", "g", "h", "i", "j", "k", "l", "m",
             "n", "o", "p", "q", "r", "s", "t", "u", "v", "w", "x", "y", "z" }
\* \s
Spaces == { " ", "\n", "\t", "\r" }

\* [A-Z0-9] under the i flag
Alnums == Letters \cup Digits
\* [-A-Z0-9a-z\s]
LocationChars == Alnums \cup { "-" } \cup Spaces
\* what [^\n,] excludes
LineEnds == { "\n", "," }

\* the literal `word` stands at position i of the lower-cased s
startsWithAt(s, i, word) ==
    /\ i + Len(word) - 1 <= Len(s)
    /\ SubSeq(s, i, i + Len(word) - 1) = word

\* (?:w1|w2|...) at position i: the position after the alternative that
\* matches, 0 if none does.  Where two alternatives match (minute and
\* min), what follows in the pattern accepts the text after either.
alternativeEnd(words, s, i) ==
    LET hit == { n \in 1..Len(words) : startsWithAt(s, i, words[n]) }
    IN  IF hit = { } THEN 0
        ELSE i + Len(words[CHOOSE n \in hit : \A o \in hit : n <= o])

\* a greedy run [chars]* or [chars]+ from position i on: the position of the
\* first character that is not among chars, Len(s) + 1 when the run reaches
\* the end of s
skipWhile(chars, s, i) ==
    IF i < 1 \/ i > Len(s) THEN i
    ELSE CHOOSE j \in i..Len(s) + 1 :
             /\ j > Len(s) \/ s[j] \notin chars
             /\ \A m \in i..j - 1 : s[m] \in chars

\* a greedy run [^chars]+ from position i on
skipUntil(chars, s, i) ==
    IF i < 1 \/ i > Len(s) THEN i
    ELSE CHOOSE j \in i..Len(s) + 1 :
             /\ j > Len(s) \/ s[j] \in chars
             /\ \A m \in i..j - 1 : s[m] \notin chars

\* [:.]?, greedy
skipPunctuation(s, i) ==
    IF 1 <= i /\ i <= Len(s) /\ s[i] \in { ":", "." } THEN i + 1 ELSE i

\* the largest position c in lo..hi at which a [^\n,]+ capture can begin: the
\* optional parts before the capture give characters back one by one until
\* the capture has one to start on
lastLineStart(s, lo, hi) ==
    LET ok == { c \in lo..hi : 1 <= c /\ c <= Len(s) /\ s[c] \notin LineEnds }
    IN  IF ok = { } THEN 0 ELSE CHOOSE c \in ok : \A o \in ok : o <= c

\* --- extractDuration
\* (?:hour|hr) and (?:minute|min) of DURATION_PATTERNS
HourWords == << << "h", "o", "u", "r" >>,
       << "h", "r" >> >>
MinuteWords == << << "m", "i", "n", "u", "t", "e" >>,
       << "m", "i", "n" >> >>

\* the least member of a non-empty set of positions
leftmost(positions) == CHOOSE p \in positions : \A o \in positions : p <= o

\* text.match(/(\d+)\s*(?:w1|w2)s?/i): the (\d+) of the leftmost match from
\* position i on, Null without a match
firstDuration(s, words, i) ==
    LET starts == { j \in i..Len(s) :
                      /\ s[j] \in Digits
                      /\ alternativeEnd(words, s,
                            skipWhile(Spaces, s, skipWhile(Digits, s, j))) > 0 }
        first == leftmost(starts)
    IN  IF starts = { } THEN Null
        ELSE Some(SubSeq(s, first, skipWhile(Digits, s, first) - 1))

digitValue(c) ==
    CASE c = "0" -> 0 [] c = "1" -> 1 [] c = "2" -> 2 [] c = "3" -> 3
      [] c = "4" -> 4 [] c = "5" -> 5 [] c = "6" -> 6 [] c = "7" -> 7
      [] c = "8" -> 8 [] c = "9" -> 9

RECURSIVE parseInt(_)
\* parseInt(match[1], 10) on a run of digits
parseInt(digits) ==
    IF digits = << >> THEN 0
    ELSE parseInt(SubSeq(digits, 1, Len(digits) - 1)) * 10
         + digitValue(digits[Len(digits)])

\* extractDuration: the hour pattern is tried first, the first match decides
DefaultMinutes == 60
MinutesPerHour == 60

\* the hour and the minute mention added up
extractDuration_summed(text) ==
    LET hours == firstDuration(lowerCase(text), HourWords, 1)
        minutes == firstDuration(lowerCase(text), MinuteWords, 1)
    IN  IF hours = Null /\ minutes = Null THEN DefaultMinutes
        ELSE (IF hours # Null THEN parseInt(hours[1]) * MinutesPerHour ELSE 0)
             + (IF minutes # Null THEN parseInt(minutes[1]) ELSE 0)

extractDuration(text) ==
    LET hours == firstDuration(lowerCase(text), HourWords, 1)
        minutes == firstDuration(lowerCase(text), MinuteWords, 1)
    IN  IF hours # Null THEN parseInt(hours[1]) * MinutesPerHour
        ELSE IF minutes # Null THEN parseInt(minutes[1])
        ELSE DefaultMinutes

\* --- extractLocation
\* the keywords of the four LOCATION_PATTERNS and the optional word of the
\* third
PhraseWords == << << "i", "n" >>,
       << "a", "t" >>,
       << "r", "o", "o", "m" >>,
       << "b", "u", "i", "l", "d", "i", "n", "g" >>,
       << "o", "f", "f", "i", "c", "e" >>,
       << "c", "o", "n", "f", "e", "r", "e", "n", "c", "e", " ", "r", "o", "o", "m" >>,
       << "m", "e", "e", "t", "i", "n", "g", " ", "r", "o", "o", "m" >> >>
LabelWords == << << "l", "o", "c", "a", "t", "i", "o", "n" >>,
       << "v", "e", "n", "u", "e" >>,
       << "p", "l", "a", "c", "e" >> >>
LinkWords == << << "z", "o", "o", "m" >>,
       << "t", "e", "a", "m", "s" >>,
       << "m", "e", "e", "t" >> >>
LinkNouns == << << "l", "i", "n", "k" >>,
       << "u", "r", "l" >>,
       << "m", "e", "e", "t", "i", "n", "g" >> >>
InvitationWords == << << "j", "o", "i", "n", " ", "u", "s", " ", "a", "t" >>,
       << "m", "e", "e", "t", " ", "a", "t" >>,
       << "g", "a", "t", "h", "e", "r", " ", "a", "t" >> >>
\* the words location.replace(/^(in|at|room|building)\s*/i, '') removes
CleanWords == << << "i", "n" >>,
       << "a", "t" >>,
       << "r", "o", "o", "m" >>,
       << "b", "u", "i", "l", "d", "i", "n", "g" >> >>

\* One match of a pattern: it covers s[from..to-1] and its capture group
\* s[capture..to-1].  Null: the pattern does not match at position i.

\* \s*[:.]?\s* from position p on: the position it ends at when every part
\* takes all it can
skipSeparator(s, p) ==
    skipWhile(Spaces, s, skipPunctuation(s, skipWhile(Spaces, s, p)))

\* /(?:in|at|room|...)\s*[:.]?\s*([A-Z0-9][-A-Z0-9a-z\s]+)/gi at position i
phraseAt(s, i) ==
    LET p == alternativeEnd(PhraseWords, s, i)
        c == skipSeparator(s, p)
    IN  IF p > 0 /\ c + 1 <= Len(s) /\ s[c] \in Alnums /\ s[c + 1] \in LocationChars
        THEN Some([ from |-> i, capture |-> c,
                    to |-> skipWhile(LocationChars, s, c + 1) ])
        ELSE Null

\* /(?:location|venue|place)\s*[:.]?\s*([^\n,]+)/gi at position i
labelAt(s, i) ==
    LET p == alternativeEnd(LabelWords, s, i)
        c == lastLineStart(s, p, skipSeparator(s, p))
    IN  IF p > 0 /\ c > 0
        THEN Some([ from |-> i, capture |-> c, to |-> skipUntil(LineEnds, s, c) ])
        ELSE Null

\* /(?:zoom|teams|meet)\s*(?:link|url|meeting)?\s*[:.]?\s*(https?:\/\/[^\s]+)/gi
\* at position i
linkAt(s, i) ==
    LET p == alternativeEnd(LinkWords, s, i)
        \* a is where the optional word may stand, n where it ends (0: absent)
        a == skipWhile(Spaces, s, p)
        n == alternativeEnd(LinkNouns, s, a)
        \* the address begins at c: "http", an optional "s", "://" and at
        \* least one character that is no space, from u on
        c == skipSeparator(s, IF n > 0 THEN n ELSE a)
        u == IF startsWithAt(s, c + 4, << "s" >>) THEN c + 8 ELSE c + 7
    IN  IF /\ p > 0
           /\ startsWithAt(s, c, << "h", "t", "t", "p" >>)
           /\ startsWithAt(s, u - 3, << ":", "/", "/" >>)
           /\ u <= Len(s) /\ s[u] \notin Spaces
        THEN Some([ from |-> i, capture |-> c, to |-> skipUntil(Spaces, s, u) ])
        ELSE Null

\* /(?:join us at|meet at|gather at)\s+([^\n,]+)/gi at position i
invitationAt(s, i) ==
    LET p == alternativeEnd(InvitationWords, s, i)
        c == lastLineStart(s, p + 1, skipWhile(Spaces, s, p))
    IN  IF p > 0 /\ c > 0
        THEN Some([ from |-> i, capture |-> c, to |-> skipUntil(LineEnds, s, c) ])
        ELSE Null

\* LOCATION_PATTERNS[k - 1] at position i
patternAt(k, s, i) ==
    CASE k = 1 -> phraseAt(s, i)
      [] k = 2 -> labelAt(s, i)
      [] k = 3 -> linkAt(s, i)
      [] k = 4 -> invitationAt(s, i)

RECURSIVE execAll(_, _, _)
\* every match of pattern k from position i on, left to right, each search
\* starting where the match before ended (the g flag)
execAll(k, s, i) ==
    LET matches == { patternAt(k, s, j) : j \in i..Len(s) } \ { Null }
        first == CHOOSE x \in matches : \A y \in matches : x[1].from <= y[1].from
    IN  IF matches = { } THEN << >>
        ELSE first \o execAll(k, s, first[1].to)

\* text.match(pattern) with the g flag: the whole matches, no capture groups
textMatch(k, s) ==
    LET whole(matches) ==
            LET found == matches
            IN  [ n \in 1..Len(found) |->
                    SubSeq(s, found[n].from, found[n].to - 1) ]
    IN  whole(execAll(k, lowerCase(s), 1))

RECURSIVE trimEnd(_)
trimEnd(s) ==
    IF s # << >> /\ s[Len(s)] \in Spaces THEN trimEnd(SubSeq(s, 1, Len(s) - 1))
    ELSE s

\* String.prototype.trim
trim(s) == trimEnd(SubSeq(s, skipWhile(Spaces, s, 1), Len(s)))

MinLocationLength == 2
MaxLocationLength == 100

\* location.replace(/^(in|at|room|building)\s*/i, '').trim()
cleanLocation(location) ==
    LET p == alternativeEnd(CleanWords, lowerCase(location), 1)
    IN  trim(IF p = 0 THEN location
             ELSE SubSeq(location, skipWhile(Spaces, location, p), Len(location)))

\* what pattern number k offers: Null when it does not match, else Some(the
\* cleaned match).  match holds the whole matches and match[1] is the second
\* of them.
locationOf(text, k) ==
    LET chosen(matches) ==
            LET match == matches
            IN  IF match = << >> THEN Null
                ELSE Some(cleanLocation(IF Len(match) >= 2 THEN match[2]
                                        ELSE match[1]))
    IN  chosen(textMatch(k, text))

RECURSIVE extractLocationFrom(_, _)
\* extractLocation from pattern number k on: the offer of the first pattern
\* whose offer is within the length bounds
extractLocationFrom(text, k) ==
    IF k > 4 THEN Null
    ELSE LET location == locationOf(text, k)
         IN  IF /\ location # Null
                /\ Len(location[1]) > MinLocationLength
                /\ Len(location[1]) < MaxLocationLength
             THEN location
             ELSE extractLocationFrom(text, k + 1)

\* extractLocation(text): Null, or Some(the characters of the location)
extractLocation(text) == extractLocationFrom(text, 1)

\* chrono-node is a library outside the repository: what it reads in a text
\* is part of the email here.  One date expression is read relative to the
\* reference instant the code hands over ("tomorrow") or is fully given
\* ("5 March 2031 10:00").
resolve(ts, now) == IF ts.rel THEN now + ts.t ELSE ts.t

\* chrono.parse(text, new Date(), { forwardDate: true })
chronoParse(e, now) ==
    [ i \in 1..Len(e.dates) |->
        [ start |-> resolve(e.dates[i].start, now),
          end |-> IF e.dates[i].end = Null THEN Null
                  ELSE Some(resolve(e.dates[i].end[1], now)) ] ]

returnsNull_datesOnly(e) == Len(e.dates) = 0

\* the two early returns of extractCalendarEvent
returnsNull(e) ==
    \/ ~hasMeetingIndicators(textOf(e))
    \/ Len(e.dates) = 0

\* chrono.parse is reached only past the indicator test
chronoConsulted(e) == hasMeetingIndicators(textOf(e))

\* the duration taken off the start instead of added to it
eventEnd_subtracted(parsedDates, startDate, durationMinutes) ==
    IF Len(parsedDates) > 1 /\ parsedDates[1].end # Null
    THEN parsedDates[1].end[1]
    ELSE startDate - durationMinutes

\* the end of the event, in minutes like every instant
eventEnd(parsedDates, startDate, durationMinutes) ==
    IF Len(parsedDates) > 1 /\ parsedDates[1].end # Null
    THEN parsedDates[1].end[1]
    ELSE startDate + durationMinutes

\* title.toLowerCase().includes(needle), needle a lower-case literal
titleIncludes(title, needle) ==
    \E i \in 1..Len(title) : startsWithAt(lowerCase(title), i, needle)

\* (?:meeting|call|discussion) and (?:about|for|on|regarding) of the title
\* pattern, (?:re:|fwd:) of the prefix pattern
TitleNouns == << << "m", "e", "e", "t", "i", "n", "g" >>,
       << "c", "a", "l", "l" >>,
       << "d", "i", "s", "c", "u", "s", "s", "i", "o", "n" >> >>
TitlePrepositions == << << "a", "b", "o", "u", "t" >>,
       << "f", "o", "r" >>,
       << "o", "n" >>,
       << "r", "e", "g", "a", "r", "d", "i", "n", "g" >> >>
TitlePrefixes == << << "r", "e", ":" >>,
       << "f", "w", "d", ":" >> >>

\* [^\n.,] of the title pattern excludes these
TitleEnds == { "\n", ".", "," }

\* /(?:meeting|call|discussion)\s+(?:about|for|on|regarding)\s+([^\n.,]+)/i
\* at position i of the lower-cased s: Null, or Some of where the capture
\* group starts and where it ends.  Each \s+ takes the whole run of white
\* space; when no capture can start behind the second run, the run gives
\* back its last characters that are no line feed.
titlePatternAt(s, i) ==
    LET noun == alternativeEnd(TitleNouns, s, i)
        p == skipWhile(Spaces, s, noun)
        preposition == alternativeEnd(TitlePrepositions, s, p)
        q == skipWhile(Spaces, s, preposition)
        ok == { c \in (preposition + 1)..q : c <= Len(s) /\ s[c] \notin TitleEnds }
        capture == CHOOSE c \in ok : \A o \in ok : o <= c
    IN  IF noun = 0 \/ p = noun \/ preposition = 0 \/ q = preposition \/ ok = { }
        THEN Null
        ELSE Some([ capture |-> capture, to |-> skipUntil(TitleEnds, s, capture) ])

\* text.match(pattern) of the title: Null, or Some(meetingMatch[1].trim())
meetingMatch(text) ==
    LET s == lowerCase(text)
        starts == { i \in 1..Len(s) : titlePatternAt(s, i) # Null }
        first(found) ==
            LET m == found
            IN  Some(trim(SubSeq(text, m[1].capture, m[1].to - 1)))
    IN  IF starts = { } THEN Null
        ELSE first(titlePatternAt(s, leftmost(starts)))

\* title.replace(/^(?:re:|fwd:)\s*/i, '').trim()
stripPrefix(title) ==
    LET p == alternativeEnd(TitlePrefixes, lowerCase(title), 1)
    IN  trim(IF p = 0 THEN title
             ELSE SubSeq(title, skipWhile(Spaces, title, p), Len(title)))

\* the title of the event: the characters of the subject, or of the phrase
\* the title pattern finds in subject + " " + body
eventTitle(e) ==
    LET subject == charsOf(e.subject)
        match == meetingMatch(subject \o << " " >> \o charsOf(e.body))
        title == IF (subject = << >> \/ titleIncludes(subject, << "r", "e", ":" >>)
                                     \/ titleIncludes(subject, << "f", "w", "d", ":" >>))
                    /\ match # Null
                 THEN match[1]
                 ELSE subject
    IN  stripPrefix(title)

\* email.body.substring(0, 500) keeps at most this many characters
DescriptionLimit == 500

\* `From: ${email.from}\n\n${email.body.substring(0, 500)}`, in characters
eventDescription(e) ==
    LET body == charsOf(e.body)
    IN  << "F", "r", "o", "m", ":", " " >> \o charsOf(e.from) \o << "\n", "\n" >>
        \o SubSeq(body, 1, Min(Len(body), DescriptionLimit))

\* extractCalendarEvent(email), called at `now`; `random` is what generateUID
\* draws.  Null, or Some(CalendarEvent).
extractCalendarEventAt(e, now, random) ==
    LET returned(built) ==
            LET event == built
            IN  Some([ title |-> event.title,
                       date |-> event.date,
                       endDate |-> event.endDate,
                       location |-> event.location,
                       attendees |-> event.attendees,
                       description |-> event.description,
                       icsContent |-> Some(generateICS(event, now, random)) ])
        text == charsOf(e.subject) \o << " " >> \o charsOf(e.body)
        parsedDates == chronoParse(e, now)
        startDate == parsedDates[1].start
        endDate == eventEnd(parsedDates, startDate, extractDuration(text))
    IN  IF returnsNull(e) THEN Null
        ELSE returned([ title |-> eventTitle(e),
                        date |-> startDate,
                        endDate |-> Some(endDate),
                        location |-> extractLocation(text),
                        attendees |-> extractAttendees(e),
                        description |-> Some(eventDescription(e)) ])

\* --- extractCalendarEvent on sample emails, called twice
CalFroms ==
    { << "Team", "Calendar" >>,
      << "John@Acme.com" >>,
      << "Ann", "<", "ann@x.com", ">" >> }

CalSubjects ==
    { << >>,
      << "Budget", "review" >>,
      << "Re:", "Budget" >>,
      << "Re:", "Fwd:", "Budget" >>,
      << "Software:", "update" >>,
      << "Plan", ";", "carol@x.com" >> }

CalBodies ==
    { << "Here", "are", "the", "numbers", "." >>,
      << "Meeting", "about", "roadmap", ".", "Bob@X.com", ",", "john@acme.com" >>,
      << "let's meet", "with", "ann@x.com", ",", "a", "\\", "b", "\n", "bye" >> }

\* what chrono.parse finds: nothing; one fully given date; one with an end
\* time ("10:00 to 11:30"); a relative one ("tomorrow"); a relative one with
\* an end time; a date with an end time followed by a second date
CalDates ==
    { << >>,
      << [ start |-> [ rel |-> FALSE, t |-> 100 ], end |-> Null ] >>,
      << [ start |-> [ rel |-> FALSE, t |-> 100 ],
           end |-> Some([ rel |-> FALSE, t |-> 190 ]) ] >>,
      << [ start |-> [ rel |-> TRUE, t |-> 10 ], end |-> Null ] >>,
      << [ start |-> [ rel |-> TRUE, t |-> 10 ],
           end |-> Some([ rel |-> TRUE, t |-> 100 ]) ] >>,
      << [ start |-> [ rel |-> FALSE, t |-> 100 ],
           end |-> Some([ rel |-> FALSE, t |-> 190 ]) ],
         [ start |-> [ rel |-> FALSE, t |-> 300 ], end |-> Null ] >> }

\* what the body says about place and length: nothing; "in Room 204 for 2
\* hours"; "at 5B" and a zoom link "for 30 minutes"; "for 0 hours"; "for 0
\* minutes"; "for 0 hours 30 minutes"
CalDetails ==
    { << >>,
      << ",", "in", "Room", "204", "for", "2", "hours" >>,
      << ",", "at", "5B", ",", "zoom", "link", ":", "https://zoom.us/j/1",
         "for", "30", "minutes" >>,
      << "for", "0", "hours" >>,
      << "for", "0", "minutes" >>,
      << "for", "0", "hours", "30", "minutes" >> }

CalEmails ==
    { [ from |-> f, subject |-> s, body |-> b \o x, dates |-> d ] :
      f \in CalFroms, s \in CalSubjects, b \in CalBodies, x \in CalDetails,
      d \in CalDates }

\* Math.random() in generateUID
Randoms == { 1, 2 }

CalInit ==
    /\ calIn \in CalEmails
    /\ calNow = 0
    /\ calOut = << >>
    /\ chronoCalls = 0

CalIdle ==
    /\ calIn = [ from |-> << >>, subject |-> << >>, body |-> << >>,
                 dates |-> << >> ]
    /\ calNow = 0
    /\ calOut = << >>
    /\ chronoCalls = 0

\* time passes between two calls
ClockAdvances ==
    /\ calNow < MaxNow
    /\ calNow' = calNow + 1
    /\ UNCHANGED << calIn, calOut, chronoCalls >>

\* const event = await extractCalendarEvent(email), a first and a second time
ExtractCalendarEventCall ==
    /\ Len(calOut) < 2
    /\ \E random \in Randoms :
        calOut' = Append(calOut,
                    [ at |-> calNow,
                      event |-> extractCalendarEventAt(calIn, calNow, random) ])
    /\ chronoCalls' = chronoCalls + (IF chronoConsulted(calIn) THEN 1 ELSE 0)
    /\ UNCHANGED << calIn, calNow >>

\* --- extractDuration on a text with several duration mentions
\* most mentions of one text
MaxMentions == 2

\* "<N> <unit>": two units of each pattern, and "days", which neither matches
DurNumbers == { "1", "30" }
DurUnits == { "hour", "hrs", "minutes", "min", "days" }
DurTokens == { << n, u >> : n \in DurNumbers, u \in DurUnits }

RECURSIVE DurTexts(_)
\* the texts of at most max mentions
DurTexts(max) ==
    IF max = 0 THEN { << >> }
    ELSE DurTexts(max - 1)
         \cup { t \o m : t \in { u \in DurTexts(max - 1) : Len(u) = 2 * (max - 1) },
                          m \in DurTokens }

DurInit ==
    /\ durIn \in DurTexts(MaxMentions)
    /\ durOut = Null

DurIdle ==
    /\ durIn = << >>
    /\ durOut = Null

\* const durationMinutes = extractDuration(text)
ExtractDurationCall ==
    /\ durOut = Null
    /\ durOut' = Some(extractDuration(charsOf(durIn)))
    /\ UNCHANGED durIn

\* --- detectTone on the subject and body of an email
\* most words of a subject, and of a body
MaxToneWords == 2

\* three of the formalIndicators, four of the casualIndicators
FormalIndicators == { "dear", "regards", "kindly" }
CasualIndicators == { "hey", "thanks!", ":)", ":D" }

ToneSymbols == { "Dear", "regards", "hey", ":D", "ok" }

ToneTexts(max) == UNION { [ 1..k -> ToneSymbols ] : k \in 0..max }

\* email.body.toLowerCase() / email.subject.toLowerCase()
lowerCased(text) == [ i \in 1..Len(text) |-> ToLower(text[i]) ]

\* String.prototype.includes, an indicator being one symbol
includes(text, indicator) == \E i \in 1..Len(text) : text[i] = indicator

\* indicators.filter(i => body.includes(i) || subject.includes(i)).length
indicatorScore(indicators, subject, body) ==
    Cardinality({ i \in indicators : includes(body, i) \/ includes(subject, i) })

\* detectTone(email)
detectToneOfEmail(e) ==
    LET body == lowerCased(e.body)
        subject == lowerCased(e.subject)
    IN  detectTone([ formal |-> indicatorScore(FormalIndicators, subject, body),
                     casual |-> indicatorScore(CasualIndicators, subject, body) ])

ToneInit ==
    /\ toneIn \in [ subject : ToneTexts(MaxToneWords), body : ToneTexts(MaxToneWords) ]
    /\ toneOut = Null

ToneIdle ==
    /\ toneIn = [ subject |-> << >>, body |-> << >> ]
    /\ toneOut = Null

\* const detectedTone = detectTone(email)
DetectToneCall ==
    /\ toneOut = Null
    /\ toneOut' = Some(detectToneOfEmail(toneIn))
    /\ UNCHANGED toneIn

\* --- extractLocation on texts that hold a phrase for each pattern or none
\* in/at/room/building/office <X>: nothing; "in Room 204"; "at 5B";
\* "office 12B"; "in Room 204" and later "AT 5B"
LocPhrases ==
    { << >>,
      << "in", "Room", "204", "," >>,
      << "at", "5B", "," >>,
      << "office", "12B", "," >>,
      << "in", "Room", "204", ",", "AT", "5B", "," >> }

\* location/venue/place: <X>: nothing; "Venue: HQ2"; "place: A1"
LocLabels ==
    { << >>,
      << "Venue:", "HQ2", "," >>,
      << "place:", "A1", "," >> }

\* zoom/teams/meet link: nothing; "Zoom: https://zoom.us/j/1"
LocLinks ==
    { << >>,
      << "Zoom:", "https://zoom.us/j/1", "," >> }

\* join us at/meet at/gather at <X>: nothing; "meet at 'Luigi'"
LocInvitations ==
    { << >>,
      << "meet", "at", "'Luigi'" >> }

LocInputs ==
    { p1 \o p2 \o p3 \o p4 :
        p1 \in LocPhrases, p2 \in LocLabels, p3 \in LocLinks, p4 \in LocInvitations }

LocInit ==
    /\ locIn \in LocInputs
    /\ locOut = Null

LocIdle ==
    /\ locIn = << >>
    /\ locOut = Null

\* const location = extractLocation(text)
ExtractLocationCall ==
    /\ locOut = Null
    /\ locOut' = Some(extractLocation(charsOf(locIn)))
    /\ UNCHANGED locIn

\* ------------------------------------------------------------ entry points
\* A JSON value that may stand where the email is expected: nothing, null,
\* "", a non-empty string, a number, or an object with each field of
\* EmailSchema absent, a string, a number or (attachments) an array of strings.
ScalarKinds == { "absent", "null", "emptyString", "string", "number" }
FieldKinds == { "absent", "string", "number" }

EmailValues ==
    { v \in [ kind : ScalarKinds \cup { "object" },
              from : FieldKinds, subject : FieldKinds, body : FieldKinds,
              attachments : { "absent", "array", "string" },
              date : FieldKinds ] :
        v.kind # "object" =>
            /\ v.from = "absent" /\ v.subject = "absent" /\ v.body = "absent"
            /\ v.attachments = "absent" /\ v.date = "absent" }

\* JavaScript truthiness (the number is not zero)
truthy(v) == v.kind \in { "object", "string", "number" }

schemaAccepts_bodyOptional(v) ==
    /\ v.kind = "object"
    /\ v.from = "string"
    /\ v.subject = "string"
    /\ v.attachments \in { "absent", "array" }
    /\ v.date \in { "absent", "string" }

\* EmailSchema.safeParse(v).success
schemaAccepts(v) ==
    /\ v.kind = "object"
    /\ v.from = "string"
    /\ v.subject = "string"
    /\ v.body = "string"
    /\ v.attachments \in { "absent", "array" }
    /\ v.date \in { "absent", "string" }

\* EmailSchema.safeParse(v).data: the defaults are filled in
schemaData(v) == [ v EXCEPT !.attachments = "array" ]

\* what the promise of masterOrchestrator.processEmail settles with
Outcomes ==
    { [ threw |-> FALSE, isError |-> FALSE, message |-> "" ],
      [ threw |-> TRUE, isError |-> TRUE, message |-> "Phase 1 analyzer failed" ],
      [ threw |-> TRUE, isError |-> FALSE, message |-> "" ] }

Response(status, success, error, withResult) ==
    [ status |-> status, success |-> success, error |-> error,
      orchestration_result |-> withResult ]

BadRequest == 400
ServerError == 500
Ok == 200

responseTo_swallowed(outcome) ==
    Response(Ok, TRUE, "", ~outcome.threw)

\* the response after the await: res.json(...) or the catch block
responseTo(outcome) ==
    IF outcome.threw
    THEN Response(ServerError, FALSE,
                  IF outcome.isError THEN outcome.message
                  ELSE "Unknown error occurred", FALSE)
    ELSE Response(Ok, TRUE, "", TRUE)

HttpInit ==
    /\ httpReq \in [ email : EmailValues ]
    /\ httpPc = "received"
    /\ httpCalls = << >>
    /\ httpOutcome = Null
    /\ httpResponses = << >>

HttpIdle ==
    /\ httpReq = [ email |-> CHOOSE v \in EmailValues : v.kind = "absent" ]
    /\ httpPc = "off"
    /\ httpCalls = << >>
    /\ httpOutcome = Null
    /\ httpResponses = << >>

\* app.post("/api/process-email"): the handler up to its await
HttpHandle ==
    /\ httpPc = "received"
    /\ LET email_ == httpReq.email
       IN  IF ~truthy(email_)
           THEN /\ httpResponses' = Append(httpResponses,
                     Response(BadRequest, FALSE,
                              "Missing email object in request body", FALSE))
                /\ httpPc' = "done"
                /\ UNCHANGED httpCalls
           ELSE IF ~schemaAccepts(email_)
           THEN /\ httpResponses' = Append(httpResponses,
                     Response(BadRequest, FALSE, "Invalid email format", FALSE))
                /\ httpPc' = "done"
                /\ UNCHANGED httpCalls
           ELSE /\ httpCalls' = Append(httpCalls, schemaData(email_))
                /\ httpPc' = "awaiting"
                /\ UNCHANGED httpResponses
    /\ UNCHANGED << httpReq, httpOutcome >>

\* processEmail settles and the handler resumes
HttpProcessEmailSettles ==
    /\ httpPc = "awaiting"
    /\ \E outcome \in Outcomes :
        /\ httpOutcome' = Some(outcome)
        /\ httpResponses' = Append(httpResponses, responseTo(outcome))
    /\ httpPc' = "done"
    /\ UNCHANGED << httpReq, httpCalls >>

\* --- the command line
CliArgs == { "none", "help", "fileNoPath", "file", "stdin", "other" }

\* the file or stdin content: whether the file can be read, whether
\* JSON.parse accepts the content, whether the document is { email: value }
\* or the value itself
CliInputs ==
    { i \in [ readable : BOOLEAN, parses : BOOLEAN, wrapped : BOOLEAN,
              value : EmailValues ] :
        /\ ~i.wrapped => i.value.kind # "absent"
        /\ ~i.parses => (i.wrapped /\ i.value.kind = "absent") }

\* const email = parsed.email || parsed, when reading parsed.email does not throw
cliEmail(input) ==
    IF input.wrapped /\ truthy(input.value) THEN input.value
    ELSE IF input.wrapped
    THEN [ kind |-> "object", from |-> "absent", subject |-> "absent",
           body |-> "absent", attachments |-> "absent", date |-> "absent" ]
    ELSE input.value

CliInit ==
    /\ cliArgs \in CliArgs
    /\ cliInput \in CliInputs
    /\ cliPc = "main"
    /\ cliChunks = 0
    /\ cliCalls = << >>
    /\ cliExit = Null

CliIdle ==
    /\ cliArgs = "none"
    /\ cliInput = CHOOSE i \in CliInputs : ~i.parses /\ ~i.readable
    /\ cliPc = "off"
    /\ cliChunks = 0
    /\ cliCalls = << >>
    /\ cliExit = Null

\* the try block of main() on inputJson, up to process.exit(1) or to its await
\* on processEmail
cliParseAndCall ==
    IF \/ ~cliInput.parses
       \/ ~cliInput.wrapped /\ cliInput.value.kind = "null"
       \/ ~schemaAccepts(cliEmail(cliInput))
    THEN cliExit' = Some(1) /\ cliPc' = "done" /\ UNCHANGED cliCalls
    ELSE /\ cliCalls' = Append(cliCalls, schemaData(cliEmail(cliInput)))
         /\ cliPc' = "awaiting"
         /\ UNCHANGED cliExit

\* main() from its start: to process.exit, with --file through readFileSync
\* and the try block to the await on processEmail, with --stdin to the first
\* await of the loop over process.stdin
CliMain ==
    /\ cliPc = "main"
    /\ IF cliArgs \in { "none", "help" }
       THEN cliExit' = Some(0) /\ cliPc' = "done" /\ UNCHANGED cliCalls
       ELSE IF \/ cliArgs \in { "fileNoPath", "other" }
               \/ cliArgs = "file" /\ ~cliInput.readable
       THEN cliExit' = Some(1) /\ cliPc' = "done" /\ UNCHANGED cliCalls
       ELSE IF cliArgs = "stdin"
       THEN cliPc' = "reading" /\ UNCHANGED << cliCalls, cliExit >>
       ELSE cliParseAndCall
    /\ UNCHANGED << cliArgs, cliInput, cliChunks >>

\* most chunks process.stdin delivers a document in
MaxChunks == 2

\* process.stdin yields a chunk: it is pushed and the loop awaits the next
CliStdinChunk ==
    /\ cliPc = "reading"
    /\ cliChunks < MaxChunks
    /\ cliChunks' = cliChunks + 1
    /\ UNCHANGED << cliArgs, cliInput, cliPc, cliCalls, cliExit >>

\* process.stdin ends: the chunks are joined to inputJson and the try block
\* runs.  No chunk at all is the empty text, which JSON.parse rejects.  While
\* stdin stays open main() stays in the loop.
CliStdinEnds ==
    /\ cliPc = "reading"
    /\ cliInput.parses => cliChunks >= 1
    /\ cliParseAndCall
    /\ UNCHANGED << cliArgs, cliInput, cliChunks >>

\* processEmail settles: the result is printed and main() returns, or the
\* catch block calls process.exit(1)
CliProcessEmailSettles ==
    /\ cliPc = "awaiting"
    /\ \E outcome \in Outcomes :
        cliExit' = Some(IF outcome.threw THEN 1 ELSE 0)
    /\ cliPc' = "done"
    /\ UNCHANGED << cliArgs, cliInput, cliChunks, cliCalls >>

EntryInit ==
    \/ HttpInit /\ CliIdle
    \/ CliInit /\ HttpIdle

SideIdle ==
    CalIdle /\ EscIdle /\ HttpIdle /\ CliIdle /\ DurIdle /\ ToneIdle /\ LocIdle

\* ------------------------------------------------------------ orchestrator
Order == << "Summarizer", "Spam", "Calendar", "Language" >>
Analyzers == { Order[i] : i \in 1..Len(Order) }

\* an entry of the action log: one is recorded when an analyzer is invoked and
\* one when it settles (completed or failed)
Entry(text) == [ text |-> text, score |-> -1 ]
SpamDetectedEntry(score) == [ text |-> "Spam detected", score |-> score ]

PcOf(a) ==
    CASE a = "Summarizer" -> sumPc
      [] a = "Spam"       -> spamPc
      [] a = "Calendar"   -> calPc
      [] a = "Language"   -> langPc

Started(a) == PcOf(a) # "idle"
Settled(a) == PcOf(a) \in { "returned", "thrown" }
Running(a) == Started(a) /\ ~Settled(a)

\* each analyzer awaited before the next is invoked
LaunchReady_sequential(n) == \A i \in 1..(n - 1) : Settled(Order[i])

\* processEmail invokes the analyzers one after the other without awaiting
\* any of them in between
LaunchReady(n) == TRUE

\* processEmail has a synchronous step to take: no callback runs meanwhile
OrchestratorBusy == pc = "launch" /\ LaunchReady(launched + 1)

\* the remaining analyzers abandoned once one of them has failed
MayProceed_cancelOnFailure(a) ==
    \A b \in Analyzers \ {a} : PcOf(b) # "thrown"

\* an analyzer that was launched goes on whatever the others did
MayProceed(a) == TRUE

\* a barrier that takes the calendar extractor as done once it was started
Phase1Settled_calendarStarted ==
    /\ \A a \in Analyzers \ {"Calendar"} : PcOf(a) = "returned"
    /\ Started("Calendar")

\* a barrier on the three results the reply prompt and the gate read
Phase1Settled_withoutCalendar ==
    \A a \in Analyzers \ {"Calendar"} : PcOf(a) = "returned"

\* the barrier before the gate
Phase1Settled == \A a \in Analyzers : PcOf(a) = "returned"

\* a gate on the score, strictly above the threshold
SpamGate_strictScore(spam) == spam.score > SpamThreshold

\* the gate: spamResult.isSpam
SpamGate(spam) == spam.isSpam

\* a calendar event or an urgent keyword looked at before the spam verdict
calculatePriority_calendarFirst(isSpam, calendarEvent, urgent, newsletter) ==
    IF calendarEvent # Null \/ urgent THEN "high"
    ELSE IF isSpam THEN "low"
    ELSE IF newsletter THEN "low"
    ELSE "medium"

calculatePriority(isSpam, calendarEvent, urgent, newsletter) ==
    IF isSpam THEN "low"
    ELSE IF calendarEvent # Null \/ urgent THEN "high"
    ELSE IF newsletter THEN "low"
    ELSE "medium"

Init ==
    /\ spamIn = CHOOSE c \in Checks(0, 0) : TRUE
    /\ spamOut = Null
    /\ email \in Emails
    /\ openaiKey \in BOOLEAN
    /\ suspends \in [ { "Spam", "Calendar" } -> BOOLEAN ]
    /\ pc = "launch"
    /\ launched = 0
    /\ sumPc = "idle"  /\ sumRes = Null
    /\ spamPc = "idle" /\ spamRes = Null
    /\ calPc = "idle"  /\ calRes = Null
    /\ langPc = "idle" /\ langRes = Null
    /\ replyPc = "idle" /\ replyCalls = << >> /\ replyRes = Null
    /\ actions_taken = << >>
    /\ result = Null
    /\ SideIdle

Launch(a) ==
    /\ pc = "launch"
    /\ launched < Len(Order)
    /\ Order[launched + 1] = a
    /\ LaunchReady(launched + 1)
    /\ launched' = launched + 1
    /\ pc' = IF launched + 1 = Len(Order) THEN "await" ELSE "launch"

\* summarizerAgent.run(email): runs up to `await ollama.list()`
InvokeSummarizer ==
    /\ Launch("Summarizer")
    /\ sumPc' = "list"
    /\ actions_taken' = Append(actions_taken, Entry("Summarizer started"))
    /\ UNCHANGED << spamVars, sideVars, email, openaiKey, suspends, sumRes, spamPc, spamRes,
                    calPc, calRes, langPc, langRes, replyPc, replyCalls,
                    replyRes, result >>

\* spamDetectorAgent.run(email): detectSpam has no await of its own
InvokeSpam ==
    /\ Launch("Spam")
    /\ IF suspends["Spam"]
       THEN /\ spamPc' = "running"
            /\ spamRes' = spamRes
            /\ actions_taken' = Append(actions_taken, Entry("Spam Detector started"))
       ELSE /\ spamPc' = "returned"
            /\ spamRes' = Some(detectSpam(email.checks))
            /\ actions_taken' = actions_taken \o
                   << Entry("Spam Detector started"), Entry("Spam Detector completed") >>
    /\ UNCHANGED << spamVars, sideVars, email, openaiKey, suspends, sumPc, sumRes,
                    calPc, calRes, langPc, langRes, replyPc, replyCalls,
                    replyRes, result >>

\* calendarExtractorAgent.run(email): extractCalendarEvent has no await
InvokeCalendar ==
    /\ Launch("Calendar")
    /\ IF suspends["Calendar"]
       THEN /\ calPc' = "running"
            /\ calRes' = calRes
            /\ actions_taken' = Append(actions_taken, Entry("Calendar Extractor started"))
       ELSE /\ calPc' = "returned"
            /\ calRes' = extractCalendarEvent(email)
            /\ actions_taken' = actions_taken \o
                   << Entry("Calendar Extractor started"),
                      Entry("Calendar Extractor completed") >>
    /\ UNCHANGED << spamVars, sideVars, email, openaiKey, suspends, sumPc, sumRes,
                    spamPc, spamRes, langPc, langRes, replyPc, replyCalls,
                    replyRes, result >>

\* languageDetectorAgent.run(email): detectLanguage runs up to
\* `await checkOllamaAvailable()`
InvokeLanguage ==
    /\ Launch("Language")
    /\ langPc' = "list"
    /\ actions_taken' = Append(actions_taken, Entry("Language Detector started"))
    /\ UNCHANGED << spamVars, sideVars, email, openaiKey, suspends, sumPc, sumRes,
                    spamPc, spamRes, calPc, calRes, langRes, replyPc,
                    replyCalls, replyRes, result >>

\* --- summarize(email), part_005 613-627, with the calls it awaits

\* checkOllamaAvailable(): ollama.list() resolves or rejects; then the branch
\* of summarize: Ollama, else OpenAI if the client exists, else throw
OllamaListSettles ==
    /\ sumPc = "list"
    /\ ~OrchestratorBusy
    /\ MayProceed("Summarizer")
    /\ \E ollamaAvailable \in BOOLEAN :
          IF ollamaAvailable
          THEN /\ sumPc' = "generate"
               /\ actions_taken' = actions_taken
          ELSE IF openaiKey
          THEN /\ sumPc' = "create"
               /\ actions_taken' = actions_taken
          ELSE /\ sumPc' = "thrown"
               /\ actions_taken' = Append(actions_taken, Entry("Summarizer failed"))
    /\ UNCHANGED << spamVars, sideVars, email, openaiKey, suspends, pc, launched, sumRes,
                    spamPc, spamRes, calPc, calRes, langPc, langRes, replyPc,
                    replyCalls, replyRes, result >>

\* summarizeWithOllama: `await ollama.generate(...)` rejects (the exception
\* leaves summarize) or resolves with the model's text
OllamaGenerateSettles ==
    /\ sumPc = "generate"
    /\ ~OrchestratorBusy
    /\ MayProceed("Summarizer")
    /\ \/ /\ sumPc' = "thrown"
          /\ sumRes' = sumRes
          /\ actions_taken' = Append(actions_taken, Entry("Summarizer failed"))
       \/ \E response \in SummaryOutputs :
             /\ sumPc' = "returned"
             /\ sumRes' = Some(summarizeWithOllama(response))
             /\ actions_taken' = Append(actions_taken, Entry("Summarizer completed"))
    /\ UNCHANGED << spamVars, sideVars, email, openaiKey, suspends, pc, launched,
                    spamPc, spamRes, calPc, calRes, langPc, langRes, replyPc,
                    replyCalls, replyRes, result >>

\* summarizeWithOpenAI: `await openai.chat.completions.create(...)`
OpenAICreateSettles ==
    /\ sumPc = "create"
    /\ ~OrchestratorBusy
    /\ MayProceed("Summarizer")
    /\ \/ /\ sumPc' = "thrown"
          /\ sumRes' = sumRes
          /\ actions_taken' = Append(actions_taken, Entry("Summarizer failed"))
       \/ \E content \in SummaryOutputs \cup { "" } :
             /\ sumPc' = "returned"
             /\ sumRes' = Some(summarizeWithOpenAI(content))
             /\ actions_taken' = Append(actions_taken, Entry("Summarizer completed"))
    /\ UNCHANGED << spamVars, sideVars, email, openaiKey, suspends, pc, launched,
                    spamPc, spamRes, calPc, calRes, langPc, langRes, replyPc,
                    replyCalls, replyRes, result >>

\* a spam scorer that suspended resumes and returns
SpamSettles ==
    /\ spamPc = "running"
    /\ ~OrchestratorBusy
    /\ MayProceed("Spam")
    /\ spamPc' = "returned"
    /\ spamRes' = Some(detectSpam(email.checks))
    /\ actions_taken' = Append(actions_taken, Entry("Spam Detector completed"))
    /\ UNCHANGED << spamVars, sideVars, email, openaiKey, suspends, pc, launched, sumPc,
                    sumRes, calPc, calRes, langPc, langRes, replyPc,
                    replyCalls, replyRes, result >>

\* a calendar extractor that suspended resumes and returns
CalendarSettles ==
    /\ calPc = "running"
    /\ ~OrchestratorBusy
    /\ MayProceed("Calendar")
    /\ calPc' = "returned"
    /\ calRes' = extractCalendarEvent(email)
    /\ actions_taken' = Append(actions_taken, Entry("Calendar Extractor completed"))
    /\ UNCHANGED << spamVars, sideVars, email, openaiKey, suspends, pc, launched, sumPc,
                    sumRes, spamPc, spamRes, langPc, langRes, replyPc,
                    replyCalls, replyRes, result >>

\* checkOllamaAvailable() of the language detector: ollama.list() resolves,
\* or it rejects and detectLanguage returns the heuristic's result
LanguageListSettles ==
    /\ langPc = "list"
    /\ ~OrchestratorBusy
    /\ MayProceed("Language")
    /\ \E ollamaAvailable \in BOOLEAN :
          IF ollamaAvailable
          THEN /\ langPc' = "generate"
               /\ langRes' = langRes
               /\ actions_taken' = actions_taken
          ELSE \E matches \in LanguageMatches :
               /\ langPc' = "returned"
               /\ langRes' = Some(detectLanguageHeuristic(matches))
               /\ actions_taken' =
                      Append(actions_taken, Entry("Language Detector completed"))
    /\ UNCHANGED << spamVars, sideVars, email, openaiKey, suspends, pc, launched, sumPc,
                    sumRes, spamPc, spamRes, calPc, calRes, replyPc,
                    replyCalls, replyRes, result >>

\* `await ollama.generate(...)` of the language detector rejects, which the
\* catch block answers with the heuristic, or resolves with the model's text
LanguageGenerateSettles ==
    /\ langPc = "generate"
    /\ ~OrchestratorBusy
    /\ MayProceed("Language")
    /\ \E matches \in LanguageMatches :
          \/ langRes' = Some(detectLanguageHeuristic(matches))
          \/ \E response \in LanguageOutputs :
                langRes' = Some(detectLanguage(response, matches))
    /\ langPc' = "returned"
    /\ actions_taken' = Append(actions_taken, Entry("Language Detector completed"))
    /\ UNCHANGED << spamVars, sideVars, email, openaiKey, suspends, pc, launched, sumPc,
                    sumRes, spamPc, spamRes, calPc, calRes, replyPc,
                    replyCalls, replyRes, result >>

\* --- processEmail after the barrier

OrchestrationResult(summary, reply, log) ==
    [ summary           |-> summary,
      priority          |-> calculatePriority(spamRes[1].isSpam, calRes,
                                              email.urgent, email.newsletter),
      suggested_reply   |-> reply,
      spam_score        |-> spamRes[1].score,
      calendar_event    |-> calRes,
      actions_taken     |-> log,
      detected_language |-> langRes[1] ]

\* an analyzer rejected: processEmail has no catch, its await rethrows.  The
\* rejection may reach processEmail as soon as the first analyzer has failed
\* or only after the others have settled too: both are allowed here.
Phase1Rejects ==
    /\ pc = "await"
    /\ \E a \in Analyzers : PcOf(a) = "thrown"
    /\ pc' = "thrown"
    /\ UNCHANGED << spamVars, sideVars, email, openaiKey, suspends, launched, sumPc,
                    sumRes, spamPc, spamRes, calPc, calRes, langPc, langRes,
                    replyPc, replyCalls, replyRes, actions_taken, result >>

\* the gate, spam: no reply, empty summary, the run is over
GateSpam ==
    /\ pc = "await"
    /\ Phase1Settled
    /\ SpamGate(spamRes[1])
    /\ LET log == actions_taken \o
                  << Entry("Reply skipped (spam detected)"),
                     SpamDetectedEntry(spamRes[1].score) >>
       IN  /\ actions_taken' = log
           /\ result' = Some(OrchestrationResult("", Null, log))
    /\ pc' = "done"
    /\ UNCHANGED << spamVars, sideVars, email, openaiKey, suspends, launched, sumPc,
                    sumRes, spamPc, spamRes, calPc, calRes, langPc, langRes,
                    replyPc, replyCalls, replyRes >>

\* the gate, not spam: replyGeneratorAgent.run(email, summary, { language });
\* generateReply runs up to `await openai.chat.completions.create(...)`
GateReply ==
    /\ pc = "await"
    /\ Phase1Settled
    /\ ~SpamGate(spamRes[1])
    /\ replyPc' = "create"
    /\ replyCalls' = Append(replyCalls,
                            [ email |-> email, summary |-> sumRes[1],
                              options |-> [ language |-> langRes[1] ] ])
    /\ actions_taken' = Append(actions_taken, Entry("Reply Generator started"))
    /\ pc' = "reply"
    /\ UNCHANGED << spamVars, sideVars, email, openaiKey, suspends, launched, sumPc,
                    sumRes, spamPc, spamRes, calPc, calRes, langPc, langRes,
                    replyRes, result >>

\* generateReply: the completion call rejects (nothing catches it) or
\* resolves with the message content
ReplyCreateSettles ==
    /\ replyPc = "create"
    /\ \/ /\ replyPc' = "thrown"
          /\ replyRes' = replyRes
       \/ \E content \in ReplyOutputs :
             /\ replyPc' = "returned"
             /\ replyRes' = Some(generateReply(email, content))
    /\ UNCHANGED << spamVars, sideVars, email, openaiKey, suspends, pc, launched, sumPc,
                    sumRes, spamPc, spamRes, calPc, calRes, langPc, langRes,
                    replyCalls, actions_taken, result >>

\* processEmail resumes with the reply and returns
Finish ==
    /\ pc = "reply"
    /\ replyPc = "returned"
    /\ LET log == Append(actions_taken, Entry("Reply generated"))
       IN  /\ actions_taken' = log
           /\ result' = Some(OrchestrationResult(sumRes[1].summary,
                                                 Some(replyRes[1].reply), log))
    /\ pc' = "done"
    /\ UNCHANGED << spamVars, sideVars, email, openaiKey, suspends, launched, sumPc,
                    sumRes, spamPc, spamRes, calPc, calRes, langPc, langRes,
                    replyPc, replyCalls, replyRes >>

\* generateReply rejected: processEmail rethrows
ReplyRejects ==
    /\ pc = "reply"
    /\ replyPc = "thrown"
    /\ pc' = "thrown"
    /\ UNCHANGED << spamVars, sideVars, email, openaiKey, suspends, launched, sumPc,
                    sumRes, spamPc, spamRes, calPc, calRes, langPc, langRes,
                    replyPc, replyCalls, replyRes, actions_taken, result >>

Next ==
    \/ InvokeSummarizer
    \/ InvokeSpam
    \/ InvokeCalendar
    \/ InvokeLanguage
    \/ OllamaListSettles
    \/ OllamaGenerateSettles
    \/ OpenAICreateSettles
    \/ SpamSettles
    \/ CalendarSettles
    \/ LanguageListSettles
    \/ LanguageGenerateSettles
    \/ Phase1Rejects
    \/ GateSpam
    \/ GateReply
    \/ ReplyCreateSettles
    \/ Finish
    \/ ReplyRejects

Spec == Init /\ [][Next]_vars

\* The runs whose progress is followed: every spam verdict, calendar outcome,
\* service outcome and suspension pattern, on emails without priority
\* keywords or tone indicators (no guard of the run reads either).
FairInit ==
    /\ Init
    /\ ~email.urgent /\ ~email.newsletter
    /\ email.formal = 0 /\ email.casual = 0
    /\ email.meeting => email.dates = 1

\* Every callback that is ready runs, and every awaited call settles.
FairSpec == FairInit /\ [][Next]_vars /\ WF_vars(Next)

\* --- detectSpam on every combination of what the checks find
OrchIdle ==
    /\ email = CHOOSE e \in Emails : TRUE
    /\ openaiKey = FALSE
    /\ suspends = [ a \in { "Spam", "Calendar" } |-> FALSE ]
    /\ pc = "idle"
    /\ launched = 0
    /\ sumPc = "idle"  /\ sumRes = Null
    /\ spamPc = "idle" /\ spamRes = Null
    /\ calPc = "idle"  /\ calRes = Null
    /\ langPc = "idle" /\ langRes = Null
    /\ replyPc = "idle" /\ replyCalls = << >> /\ replyRes = Null
    /\ actions_taken = << >>
    /\ result = Null

SpamSpecInit == SpamInit /\ OrchIdle /\ SideIdle
SpamSpecNext == DetectSpamCall /\ UNCHANGED << orchVars, sideVars >>
SpamSpec == SpamSpecInit /\ [][SpamSpecNext]_vars

SpamIdle ==
    /\ spamIn = CHOOSE c \in Checks(0, 0) : TRUE
    /\ spamOut = Null

\* --- extractCalendarEvent alone
CalSpecInit ==
    CalInit /\ SpamIdle /\ OrchIdle /\ EscIdle /\ HttpIdle /\ CliIdle
    /\ DurIdle /\ ToneIdle /\ LocIdle
CalSpecNext ==
    /\ ClockAdvances \/ ExtractCalendarEventCall
    /\ UNCHANGED << spamVars, orchVars, escVars, httpVars, cliVars,
                    durVars, toneVars, locVars >>
CalSpec == CalSpecInit /\ [][CalSpecNext]_vars

\* --- extractDuration alone
DurSpecInit ==
    DurInit /\ SpamIdle /\ OrchIdle /\ CalIdle /\ EscIdle /\ HttpIdle /\ CliIdle
    /\ ToneIdle /\ LocIdle
DurSpecNext ==
    /\ ExtractDurationCall
    /\ UNCHANGED << spamVars, orchVars, calVars, escVars, httpVars, cliVars,
                    toneVars, locVars >>
DurSpec == DurSpecInit /\ [][DurSpecNext]_vars

\* --- detectTone alone
ToneSpecInit ==
    ToneInit /\ SpamIdle /\ OrchIdle /\ CalIdle /\ EscIdle /\ HttpIdle /\ CliIdle
    /\ DurIdle /\ LocIdle
ToneSpecNext ==
    /\ DetectToneCall
    /\ UNCHANGED << spamVars, orchVars, calVars, escVars, httpVars, cliVars,
                    durVars, locVars >>
ToneSpec == ToneSpecInit /\ [][ToneSpecNext]_vars

\* --- extractLocation alone
LocSpecInit ==
    LocInit /\ SpamIdle /\ OrchIdle /\ CalIdle /\ EscIdle /\ HttpIdle /\ CliIdle
    /\ DurIdle /\ ToneIdle
LocSpecNext ==
    /\ ExtractLocationCall
    /\ UNCHANGED << spamVars, orchVars, calVars, escVars, httpVars, cliVars,
                    durVars, toneVars >>
LocSpec == LocSpecInit /\ [][LocSpecNext]_vars

\* --- escapeICSText alone
EscSpecInit ==
    EscInit /\ SpamIdle /\ OrchIdle /\ CalIdle /\ HttpIdle /\ CliIdle
    /\ DurIdle /\ ToneIdle /\ LocIdle
EscSpecNext ==
    /\ EscapeCall
    /\ UNCHANGED << spamVars, orchVars, calVars, httpVars, cliVars,
                    durVars, toneVars, locVars >>
EscSpec == EscSpecInit /\ [][EscSpecNext]_vars

\* --- one request to the endpoint, or one run of the command line
EntrySpecInit ==
    EntryInit /\ SpamIdle /\ OrchIdle /\ CalIdle /\ EscIdle
    /\ DurIdle /\ ToneIdle /\ LocIdle
EntrySpecNext ==
    /\ \/ HttpHandle /\ UNCHANGED cliVars
       \/ HttpProcessEmailSettles /\ UNCHANGED cliVars
       \/ CliMain /\ UNCHANGED httpVars
       \/ CliStdinChunk /\ UNCHANGED httpVars
       \/ CliStdinEnds /\ UNCHANGED httpVars
       \/ CliProcessEmailSettles /\ UNCHANGED httpVars
    /\ UNCHANGED << spamVars, orchVars, calVars, escVars,
                    durVars, toneVars, locVars >>
EntrySpec == EntrySpecInit /\ [][EntrySpecNext]_vars

\* ------------------------------------------------------------ properties
HasEntry(log, text) == \E i \in 1..Len(log) : log[i].text = text

\* C1: in a run where the spam scorer returns isSpam = true the reply
\* generator is never invoked, the result has suggested_reply = null and
\* summary = "", and its log holds a "Reply skipped (spam detected)" and a
\* "Spam detected" entry; suggested_reply is non-null only when the spam
\* gate passed.
C1_SpamSkipsReply ==
    /\ (spamRes # Null /\ spamRes[1].isSpam)
          => (replyPc = "idle" /\ replyCalls = << >>)
    /\ (result # Null /\ spamRes[1].isSpam)
          => /\ result[1].suggested_reply = Null
             /\ result[1].summary = ""
             /\ HasEntry(result[1].actions_taken, "Reply skipped (spam detected)")
             /\ HasEntry(result[1].actions_taken, "Spam detected")
    /\ (result # Null /\ result[1].suggested_reply # Null)
          => ~spamRes[1].isSpam

\* a spam run that ended, at exactly the threshold, whose summarizer had
\* returned a non-empty summary
C1_Witness ==
    /\ result # Null
    /\ spamRes[1].isSpam
    /\ spamRes[1].score = 50
    /\ sumRes[1].summary # ""

\* C2: reply generation starts only after all four phase-1 analyzers have
\* settled: in no state is the reply generator invoked or in progress while
\* a phase-1 analyzer has not yet returned.
C2_ReplyAfterPhase1 ==
    (replyPc # "idle" \/ replyCalls # << >> \/ pc = "reply")
        => \A a \in Analyzers : PcOf(a) = "returned"

\* reply generation in progress in a run whose four analyzers all suspended
C2_Witness ==
    /\ replyPc = "create"
    /\ suspends["Spam"] /\ suspends["Calendar"]

\* C3: when every analyzer suspends before it finishes, all four analyzers
\* have started before any of them completes.
C3_AllStartBeforeAnyCompletes ==
    (suspends["Spam"] /\ suspends["Calendar"])
        => ((\E a \in Analyzers : Settled(a)) => \A a \in Analyzers : Started(a))

\* all four suspend; one has completed while another is still running
C3_Witness ==
    /\ suspends["Spam"] /\ suspends["Calendar"]
    /\ \E a \in Analyzers : Settled(a)
    /\ \E a \in Analyzers : Running(a)

\* C4: every run launches all four analyzers and each of them runs to
\* completion (returns or throws): none is abandoned because another one
\* failed, and the summarizer and the calendar extractor have run when the
\* run ends with a spam verdict.
C4_AnalyzersRunToCompletion ==
    /\ <>(\A a \in Analyzers : Settled(a))
    /\ \A a \in Analyzers : (Started(a) ~> Settled(a))
    /\ []((result # Null /\ spamRes[1].isSpam)
             => (sumPc = "returned" /\ sumRes # Null /\ calPc = "returned"))

\* the summarizer failed, and the suspended spam scorer and the language
\* detector completed after that
C4_Witness ==
    /\ \A a \in Analyzers : Settled(a)
    /\ sumPc = "thrown"
    /\ \E i, j, k \in 1..Len(actions_taken) :
          /\ i < j /\ i < k
          /\ actions_taken[i].text = "Summarizer failed"
          /\ actions_taken[j].text = "Spam Detector completed"
          /\ actions_taken[k].text = "Language Detector completed"

\* C5: the priority of the result is low when spam was detected; otherwise
\* high when a calendar event or an urgent keyword is present; otherwise low
\* when a newsletter keyword is present; otherwise medium.
C5_PriorityPrecedence ==
    result # Null =>
        LET spam == spamRes[1].isSpam
            cal  == result[1].calendar_event # Null
            p    == result[1].priority
        IN  /\ spam => p = "low"
            /\ (~spam /\ (cal \/ email.urgent)) => p = "high"
            /\ (~spam /\ ~cal /\ ~email.urgent /\ email.newsletter) => p = "low"
            /\ (~spam /\ ~cal /\ ~email.urgent /\ ~email.newsletter) => p = "medium"

\* a spam email with a calendar event and an urgent keyword: low
C5_Witness ==
    /\ result # Null
    /\ spamRes[1].isSpam
    /\ result[1].calendar_event # Null
    /\ email.urgent
    /\ result[1].priority = "low"

\* C6: processEmail never throws for a schema-valid email, whatever the
\* external services do.
C6_ProcessEmailNeverThrows == pc # "thrown"

\* C7: summarize never throws: it returns a SummarizerResult whether or not
\* Ollama is available, a key is configured, and the service call succeeds.
C7_SummarizeNeverThrows ==
    /\ sumPc # "thrown"
    /\ Settled("Summarizer") => sumRes # Null

\* C8: generateReply never throws: it returns a ReplyResult also when the
\* completion call fails.
C8_GenerateReplyNeverThrows ==
    /\ replyPc # "thrown"
    /\ replyPc \in { "returned", "thrown" } => replyRes # Null

\* C9: detectSpam returns 0 <= score <= 1, and isSpam exactly when the
\* returned score >= 0.5 (in hundredths: 100 and 50).
C9_ScoreInRangeAndFlagAgrees ==
    spamOut # Null =>
        /\ 0 <= spamOut[1].score
        /\ spamOut[1].score <= 100
        /\ spamOut[1].isSpam <=> (spamOut[1].score >= 50)

\* a result exactly at the threshold, flagged
C9_Witness ==
    /\ spamOut # Null
    /\ spamOut[1].score = 50
    /\ spamOut[1].isSpam

\* the sum of the stated weights of the features a result reports
StatedSum(f) ==
      (IF f.senderDomainMismatch THEN 30 ELSE 0)
    + (IF f.suspiciousLinks THEN 25 ELSE 0)
    + (IF f.urgencyWords THEN 20 ELSE 0)
    + (IF f.grammarIssues THEN 10 ELSE 0)
    + (IF f.knownSpamPatterns THEN 35 ELSE 0)

\* C10: the score is min(1, sum of the weights 0.30, 0.25, 0.20, 0.10, 0.35
\* of the features that are true), the features being what the five checks
\* found; it differs from the sum only when the sum exceeds 1.
C10_ScoreIsCappedWeightSum ==
    spamOut # Null =>
        LET f == spamOut[1].features
        IN  /\ f.senderDomainMismatch = spamIn.mismatch
            /\ f.suspiciousLinks = (spamIn.links # << >>)
            /\ f.urgencyWords = (spamIn.words # << >>)
            /\ f.grammarIssues = spamIn.grammar
            /\ f.knownSpamPatterns = spamIn.patterns
            /\ spamOut[1].score = Min(100, StatedSum(f))
            /\ (spamOut[1].score # StatedSum(f)) => StatedSum(f) > 100

\* all five features true: the sum 1.2 is capped to exactly 1
C10_Witness ==
    /\ spamOut # Null
    /\ \A n \in FeatureNames : spamOut[1].features[n]
    /\ spamOut[1].score = 100

\* C11: an email on which the sender-domain, urgency and link checks all
\* fire scores at least 0.5 and is flagged, with senderDomainMismatch and
\* urgencyWords reported true, whatever the grammar and pattern checks find.
C11_PhishingTemplateIsSpam ==
    (spamOut # Null /\ spamIn.mismatch /\ spamIn.links # << >> /\ spamIn.words # << >>)
    => /\ spamOut[1].score >= 50
       /\ spamOut[1].isSpam
       /\ spamOut[1].features.senderDomainMismatch
       /\ spamOut[1].features.urgencyWords

\* the template alone: the three checks fire, the other two do not
C11_Witness ==
    /\ spamOut # Null
    /\ spamIn.mismatch /\ spamIn.links # << >> /\ spamIn.words # << >>
    /\ ~spamIn.grammar /\ ~spamIn.patterns
    /\ spamOut[1].score = 75

\* --- what a call of extractCalendarEvent is compared with
\* the email has a meeting-indicator phrase in subject+body
HasIndicator == hasMeetingIndicators(calIn.subject \o calIn.body)

\* a title that begins with a reply/forward prefix, in any case
StartsWithPrefix(title) ==
    \/ SubSeq(lowerCase(title), 1, 3) = << "r", "e", ":" >>
    \/ SubSeq(lowerCase(title), 1, 4) = << "f", "w", "d", ":" >>

\* the <X> of the first "meeting/call/discussion about/for/on/regarding <X>"
\* phrase of a text, read word by word up to the end of the sentence or line
StatedPhrase(text) ==
    LET starts == { i \in 1..(Len(text) - 2) :
                      /\ ToLower(text[i]) \in { "meeting", "call", "discussion" }
                      /\ ToLower(text[i + 1]) \in { "about", "for", "on", "regarding" }
                      /\ text[i + 2] \notin { "\n", ".", "," } }
    IN  IF starts = { } THEN Null
        ELSE LET i == CHOOSE m \in starts : \A o \in starts : m <= o
                 stops == { j \in (i + 2)..Len(text) : text[j] \in { "\n", ".", "," } }
                 last == IF stops = { } THEN Len(text)
                         ELSE (CHOOSE m \in stops : \A o \in stops : m <= o) - 1
             IN  Some(SubSeq(text, i + 2, last))

\* C12: extractCalendarEvent returns null when subject+body has no meeting
\* indicator, whatever dates the text holds and without calling the date
\* parser; it returns null when the parser finds no date; an event is
\* returned only if there is both an indicator and a parsed date.
C12_NullWithoutIndicatorOrDate ==
    /\ ~HasIndicator => chronoCalls = 0
    /\ \A i \in 1..Len(calOut) :
        /\ ~HasIndicator => calOut[i].event = Null
        /\ calIn.dates = << >> => calOut[i].event = Null
        /\ calOut[i].event # Null => HasIndicator /\ calIn.dates # << >>

\* a call on an email that holds dates but no indicator: null, parser unused
C12_Witness ==
    /\ Len(calOut) >= 1
    /\ ~HasIndicator
    /\ calIn.dates # << >>
    /\ calOut[1].event = Null
    /\ chronoCalls = 0

\* the number a symbol of the sample texts writes
NumberOf(sym) ==
    CASE sym = "0" -> 0 [] sym = "1" -> 1 [] sym = "2" -> 2 [] sym = "30" -> 30

\* the numbers of the "<N> <unit>" mentions of a text of symbols whose unit
\* is among units, in the order of the text
MentionsOf(text, units) ==
    LET at == SelectSeq([ i \in 1..(Len(text) - 1) |-> i ],
                        LAMBDA i : /\ text[i] \in { "0", "1", "2", "30" }
                                   /\ text[i + 1] \in units)
    IN  [ k \in 1..Len(at) |-> NumberOf(text[at[k]]) ]

StatedHours == MentionsOf(calIn.subject \o calIn.body, { "hour", "hours", "hrs" })
StatedMinutes == MentionsOf(calIn.subject \o calIn.body, { "minutes", "min" })

\* the duration the text states: "<N> hour(s)", else "<N> minute(s)", else 60
StatedDuration ==
    IF StatedHours # << >> THEN StatedHours[1] * 60
    ELSE IF StatedMinutes # << >> THEN StatedMinutes[1]
    ELSE 60

\* C13: for every returned event, endDate is the explicit end time of the
\* first date candidate when it has one, also when that candidate is the only
\* one in the text; otherwise endDate = start + the stated duration (60
\* minutes when the text states none).
C13_EndDateFromEndTimeOrDuration ==
    \A i \in 1..Len(calOut) :
        calOut[i].event # Null =>
            LET first == calIn.dates[1]
                start == resolve(first.start, calOut[i].at)
            IN  /\ calOut[i].event[1].date = start
                /\ calOut[i].event[1].endDate =
                     Some(IF first.end # Null
                          THEN resolve(first.end[1], calOut[i].at)
                          ELSE start + StatedDuration)

RECURSIVE Distinct(_)
\* a list without its repeated elements, first occurrences kept
Distinct(s) ==
    IF s = << >> THEN << >>
    ELSE LET init == Distinct(SubSeq(s, 1, Len(s) - 1))
             x == s[Len(s)]
         IN  IF \E k \in 1..Len(init) : init[k] = x THEN init ELSE Append(init, x)

LowerAll(s) == [ k \in 1..Len(s) |-> ToLower(s[k]) ]

\* sender first, then the addresses of the subject, then those of the body
StatedAttendees ==
    LET sender == SelectSeq(calIn.from, IsAddress)
    IN  Distinct(LowerAll((IF sender = << >> THEN << >> ELSE << sender[1] >>)
                          \o SelectSeq(calIn.subject, IsAddress)
                          \o SelectSeq(calIn.body, IsAddress)))

\* C14: for every returned event, attendees is a duplicate-free list of
\* lower-cased addresses: the sender's address first, then every address found
\* in the subject and in the body in discovery order, an address that appears
\* only in the subject included.
C14_AttendeesFromSubjectAndBody ==
    \A i \in 1..Len(calOut) :
        calOut[i].event # Null =>
            calOut[i].event[1].attendees = StatedAttendees

\* C15: the title is the subject unless the subject is empty or starts with
\* "re:" / "fwd:", in which case it is taken from a "meeting/call/discussion
\* about/for/on/regarding <X>" phrase when there is one; the title never
\* begins with a reply/forward prefix, stacked prefixes included, and a
\* subject that only contains "re:" inside a word is kept as the title.
C15_TitleFromSubjectWithoutPrefix ==
    \A i \in 1..Len(calOut) :
        calOut[i].event # Null =>
            LET title == calOut[i].event[1].title
                subject == charsOf(calIn.subject)
                phrase == StatedPhrase(calIn.subject \o calIn.body)
            IN  /\ ~StartsWithPrefix(title)
                /\ (subject # << >> /\ ~StartsWithPrefix(subject))
                   => title = subject
                /\ ((subject = << >> \/ StartsWithPrefix(subject))
                    /\ phrase # Null) => title = charsOf(phrase[1])

\* two results agree on the named fields
SameField(a, b, f) ==
    (a = Null /\ b = Null) \/ (a # Null /\ b # Null /\ a[1][f] = b[1][f])

\* C16: two calls of extractCalendarEvent on the same email, made at any two
\* points in time, yield the same date, endDate, attendees, location and
\* title.
C16_IdempotentAtAnyTimes ==
    Len(calOut) = 2 =>
        \A f \in { "date", "endDate", "attendees", "location", "title" } :
            SameField(calOut[1].event, calOut[2].event, f)

RECURSIVE linesFrom(_, _, _)
\* the lines of text from position `from` on, `breaks` the positions of the
\* CRLFs still ahead
linesFrom(text, from, breaks) ==
    IF breaks = { } THEN << SubSeq(text, from, Len(text)) >>
    ELSE LET k == leftmost(breaks)
         IN  << SubSeq(text, from, k - 1) >>
             \o linesFrom(text, k + 1, breaks \ { k })

\* the lines of a text whose lines are separated by CRLF
SplitLines(text) ==
    linesFrom(text, 1, { k \in 1..Len(text) : text[k] = "\r\n" })

\* the lines of a calendar text that begin with one of the names
LinesNamed(lines, names) ==
    SelectSeq(lines, LAMBDA l : l # << >> /\ Head(l) \in names)

\* C17: every returned event has title, date, endDate, attendees, description
\* and icsContent set, and icsContent is one block from BEGIN:VCALENDAR to
\* END:VCALENDAR holding exactly one VEVENT with one UID, DTSTAMP, DTSTART,
\* DTEND and SUMMARY line, a LOCATION line only if location is set, a
\* DESCRIPTION line only if description is set, and one ATTENDEE line per
\* attendee, in attendee order.
C17_EventPopulatedAndIcsWellFormed ==
    \A i \in 1..Len(calOut) :
        calOut[i].event # Null =>
            LET ev == calOut[i].event[1]
                lines == SplitLines(ev.icsContent[1])
                n == Len(lines)
                begins == { k \in 1..n : lines[k] = << "BEGIN", ":", "VEVENT" >> }
                ends == { k \in 1..n : lines[k] = << "END", ":", "VEVENT" >> }
                inside(k) == \A b \in begins : \A e \in ends : b < k /\ k < e
                named(name) == { k \in 1..n : lines[k] # << >> /\ Head(lines[k]) = name }
            IN  /\ { "title", "date", "endDate", "attendees", "description",
                     "icsContent" } \subseteq DOMAIN ev
                /\ ev.endDate # Null /\ ev.description # Null /\ ev.icsContent # Null
                /\ lines[1] = << "BEGIN", ":", "VCALENDAR" >>
                /\ lines[n] = << "END", ":", "VCALENDAR" >>
                /\ Cardinality(named("BEGIN")) = 2 /\ Cardinality(named("END")) = 2
                /\ Cardinality(begins) = 1 /\ Cardinality(ends) = 1
                /\ \A name \in { "UID", "DTSTAMP", "DTSTART", "DTEND", "SUMMARY" } :
                    /\ Cardinality(named(name)) = 1
                    /\ \A k \in named(name) : inside(k)
                /\ Cardinality(named("LOCATION")) <= 1
                /\ named("LOCATION") # { } => ev.location # Null
                /\ Cardinality(named("DESCRIPTION")) <= 1
                /\ named("DESCRIPTION") # { } => ev.description # Null
                /\ \A k \in named("LOCATION") \cup named("DESCRIPTION")
                            \cup named("ATTENDEE;RSVP=TRUE") : inside(k)
                /\ LinesNamed(lines, { "ATTENDEE;RSVP=TRUE" })
                     = [ k \in 1..Len(ev.attendees) |->
                           << "ATTENDEE;RSVP=TRUE", ":", "mailto:", ev.attendees[k] >> ]

\* an event with a location, a description and three attendees, serialized
C17_Witness ==
    /\ Len(calOut) >= 1
    /\ calOut[1].event # Null
    /\ calOut[1].event[1].location # Null
    /\ Len(calOut[1].event[1].attendees) = 3
    /\ Len(LinesNamed(SplitLines(calOut[1].event[1].icsContent[1]),
                      { "LOCATION", "DESCRIPTION" })) = 2

RECURSIVE Unescape(_)
\* the reading of an escaped ICS text: a backslash and the symbol after it
\* stand for one character
Unescape(text) ==
    IF text = << >> THEN << >>
    ELSE IF Head(text) = "\\" /\ Len(text) >= 2
    THEN << IF text[2] = "n" THEN "\n" ELSE text[2] >> \o Unescape(Tail(Tail(text)))
    ELSE << Head(text) >> \o Unescape(Tail(text))

RECURSIVE FullyEscaped(_)
\* every backslash opens an escape of a backslash, semicolon, comma or line
\* feed, and none of these four stands in the text unescaped
FullyEscaped(text) ==
    IF text = << >> THEN TRUE
    ELSE IF Head(text) = "\\"
    THEN /\ Len(text) >= 2
         /\ text[2] \in { "\\", ";", ",", "n" }
         /\ FullyEscaped(Tail(Tail(text)))
    ELSE Head(text) \notin { ";", ",", "\n" } /\ FullyEscaped(Tail(text))

\* C18: the escaped text of a free-text field has every backslash, semicolon,
\* comma and newline escaped, unescaping it gives back the original (no
\* backslash that an escape introduced is escaped again), and no raw newline
\* remains in it.
C18_EscapeIsReversible ==
    escOut # Null =>
        /\ FullyEscaped(escOut[1])
        /\ Unescape(escOut[1]) = escIn
        /\ \A k \in 1..Len(escOut[1]) : escOut[1][k] # "\n"

\* a text with a backslash, a semicolon and a newline, escaped to six symbols
C18_Witness ==
    /\ escOut # Null
    /\ escIn = << "\\", ";", "\n" >>
    /\ escOut[1] = << "\\", "\\", "\\", ";", "\\", "n" >>

\* an email object as the schema of types/email.ts requires it: from, subject
\* and body are strings, attachments is absent or an array of strings, date
\* is absent or a string
StatedValid(v) ==
    /\ v.kind = "object"
    /\ v.from = "string" /\ v.subject = "string" /\ v.body = "string"
    /\ v.attachments # "string"
    /\ v.date # "number"

\* the document the command line was given can be read, parsed and validated
CliInputUsable ==
    /\ cliArgs \in { "file", "stdin" }
    /\ cliArgs = "file" => cliInput.readable
    /\ cliInput.parses
    /\ IF cliInput.wrapped /\ cliInput.value.kind \in { "object", "string", "number" }
       THEN StatedValid(cliInput.value)
       ELSE ~cliInput.wrapped /\ StatedValid(cliInput.value)

\* C19: a request whose email object is missing or fails schema validation is
\* answered with status 400 and an error message and processEmail is not
\* called; the command line exits non-zero without calling processEmail when
\* its input cannot be read, parsed or validated; processEmail is only ever
\* called with a valid email.
C19_NoPipelineOnInvalidInput ==
    /\ \A k \in 1..Len(httpCalls) : StatedValid(httpCalls[k])
    /\ \A k \in 1..Len(cliCalls) : StatedValid(cliCalls[k])
    /\ (httpPc \in { "awaiting", "done" } /\ ~StatedValid(httpReq.email)) =>
        /\ httpCalls = << >>
        /\ Len(httpResponses) = 1
        /\ httpResponses[1].status = 400
        /\ httpResponses[1].error # ""
    /\ (cliPc \in { "awaiting", "done" } /\ cliArgs \notin { "none", "help" }
        /\ ~CliInputUsable) =>
        /\ cliCalls = << >>
        /\ cliExit # Null
        /\ cliExit[1] # 0
    /\ cliPc = "reading" => cliCalls = << >> /\ cliExit = Null

\* a request whose email lacks its body, answered 400 without a call
C19_Witness ==
    /\ httpPc = "done"
    /\ httpReq.email.kind = "object"
    /\ httpReq.email.from = "string" /\ httpReq.email.subject = "string"
    /\ httpReq.email.body = "absent"
    /\ httpCalls = << >>
    /\ httpResponses # << >>
    /\ httpResponses[1].status = 400

\* a run of the command line on a file whose email lacks its body: exit 1
C19_WitnessCli ==
    /\ cliPc = "done"
    /\ cliArgs = "file" /\ cliInput.readable /\ cliInput.parses
    /\ cliInput.value.kind = "object" /\ cliInput.value.body = "absent"
    /\ cliCalls = << >>
    /\ cliExit = Some(1)

\* a run of the command line on stdin that delivered, in two chunks, a text
\* JSON.parse rejects: exit 1 once stdin has ended
C19_WitnessStdin ==
    /\ cliPc = "done"
    /\ cliArgs = "stdin" /\ ~cliInput.parses
    /\ cliChunks = 2
    /\ cliCalls = << >>
    /\ cliExit = Some(1)

\* C20: a request is answered exactly once when its handler ends and not
\* before; the response is 400 with success=false, 200 with success=true and
\* the orchestration_result, or 500 with success=false and the message of the
\* error; whatever processEmail throws gives the 500 response, and a 200
\* response is sent only when processEmail returned.
C20_ExactlyOneOfThreeResponses ==
    /\ httpPc \in { "off", "received", "awaiting" } => httpResponses = << >>
    /\ httpPc = "done" =>
        /\ Len(httpResponses) = 1
        /\ LET r == httpResponses[1]
           IN  /\ \/ (r.status = 400 /\ ~r.success /\ r.error # ""
                        /\ ~r.orchestration_result)
                   \/ (r.status = 200 /\ r.success /\ r.orchestration_result)
                   \/ (r.status = 500 /\ ~r.success /\ r.error # ""
                        /\ ~r.orchestration_result)
               /\ r.status = 400 <=> httpCalls = << >>
               /\ (httpOutcome # Null /\ httpOutcome[1].threw) =>
                    /\ r.status = 500
                    /\ ~r.success
                    /\ httpOutcome[1].isError => r.error = httpOutcome[1].message
               /\ r.status = 200 => (httpOutcome # Null /\ ~httpOutcome[1].threw)

\* processEmail threw an Error and the request was answered 500 with its message
C20_Witness ==
    /\ httpPc = "done"
    /\ httpOutcome # Null
    /\ httpOutcome[1].threw /\ httpOutcome[1].isError
    /\ httpResponses = << Response(500, FALSE, "Phase 1 analyzer failed", FALSE) >>

\* C21: when a run has ended and its spam scorer returned isSpam = false,
\* the reply generator was invoked exactly once, with the email, the
\* summarizer's result and { language: the language detector's result }; the
\* result has a non-null suggested_reply and the summarizer's summary; for a
\* meeting email with a date, priority is high and calendar_event non-null.
C21_LegitimateRunGetsOneReply ==
    (pc \in { "done", "thrown" } /\ spamRes # Null /\ ~spamRes[1].isSpam) =>
        /\ Len(replyCalls) = 1
        /\ sumRes # Null /\ langRes # Null
        /\ replyCalls[1] = [ email |-> email, summary |-> sumRes[1],
                             options |-> [ language |-> langRes[1] ] ]
        /\ result # Null
        /\ result[1].suggested_reply # Null
        /\ result[1].summary = sumRes[1].summary
        /\ (email.meeting /\ email.dates > 0) =>
              (result[1].priority = "high" /\ result[1].calendar_event # Null)

\* the entries the four analyzers leave in the log
Phase1Entries ==
    { "Summarizer started", "Summarizer completed", "Summarizer failed",
      "Spam Detector started", "Spam Detector completed",
      "Calendar Extractor started", "Calendar Extractor completed",
      "Language Detector started", "Language Detector completed" }

\* the entries of the gate and of reply generation
GateEntries ==
    { "Reply skipped (spam detected)", "Spam detected",
      "Reply Generator started", "Reply generated" }

StartedEntry(a) ==
    CASE a = "Summarizer"         -> "Summarizer started"
      [] a = "Spam Detector"      -> "Spam Detector started"
      [] a = "Calendar Extractor" -> "Calendar Extractor started"
      [] a = "Language Detector"  -> "Language Detector started"

CompletedEntry(a) ==
    CASE a = "Summarizer"         -> "Summarizer completed"
      [] a = "Spam Detector"      -> "Spam Detector completed"
      [] a = "Calendar Extractor" -> "Calendar Extractor completed"
      [] a = "Language Detector"  -> "Language Detector completed"

IsPrefix(s, t) == Len(s) <= Len(t) /\ SubSeq(t, 1, Len(s)) = s

\* C22: actions_taken only ever grows at its end; the log of a result holds
\* a started and a completed entry of each of the four analyzers, in
\* whatever order they ran; every gate and reply entry comes after every
\* analyzer entry.
C22_LogAppendOnly ==
    /\ [][IsPrefix(actions_taken, actions_taken')]_vars
    /\ [](result # Null =>
            /\ result[1].actions_taken = actions_taken
            /\ \A a \in { "Summarizer", "Spam Detector", "Calendar Extractor",
                           "Language Detector" } :
                 /\ HasEntry(actions_taken, StartedEntry(a))
                 /\ HasEntry(actions_taken, CompletedEntry(a)))
    /\ [](\A i, j \in 1..Len(actions_taken) :
            (actions_taken[i].text \in GateEntries
             /\ actions_taken[j].text \in Phase1Entries) => j < i)

\* a finished run in which the language detector completed before the
\* suspended spam scorer and calendar extractor did
C22_Witness ==
    /\ result # Null
    /\ \E i, j, k \in 1..Len(actions_taken) :
          /\ i < j /\ j < k
          /\ actions_taken[i].text = "Language Detector completed"
          /\ actions_taken[j].text = "Calendar Extractor completed"
          /\ actions_taken[k].text = "Spam Detector completed"
    /\ HasEntry(actions_taken, "Reply generated")

\* C24: the tone generateReply returns is formal, casual or neutral, whatever
\* the completion service answered.
C24_ToneIsOneOfThree ==
    replyRes # Null => replyRes[1].tone \in { "formal", "casual", "neutral" }

\* C25: a result with spam_score >= 0.5 has calendar_event = null,
\* an empty summary and a null suggested_reply, also when the email has a
\* meeting indicator and a date.
C25_NoCalendarEventOnSpam ==
    (result # Null /\ result[1].spam_score >= 50) =>
        /\ result[1].calendar_event = Null
        /\ result[1].summary = ""
        /\ result[1].suggested_reply = Null

\* the features a result reports as true
TrueFeatures(r) == { n \in FeatureNames : r.features[n] }

\* C26: with no feature the score is 0, isSpam is false and reasons is empty;
\* one feature alone, grammarIssues with one other feature, and
\* suspiciousLinks with urgencyWords only, are not spam; a spam verdict has
\* at least two features, whose stated weights sum to at least 0.5.
C26_SpamNeedsTwoFeatures ==
    spamOut # Null =>
        LET r == spamOut[1]
            T == TrueFeatures(r)
        IN  /\ T = { } => (r.score = 0 /\ ~r.isSpam /\ r.reasons = << >>)
            /\ Cardinality(T) = 1 => (~r.isSpam /\ r.score < 50)
            /\ (Cardinality(T) = 2 /\ "grammarIssues" \in T)
                    => (~r.isSpam /\ r.score < 50)
            /\ T = { "suspiciousLinks", "urgencyWords" }
                    => (~r.isSpam /\ r.score < 50)
            /\ r.isSpam => (Cardinality(T) >= 2 /\ StatedSum(r.features) >= 50)

\* the known patterns with the grammar issues: the largest pair with
\* grammarIssues, scored 0.45 and not flagged
C26_Witness ==
    /\ spamOut # Null
    /\ TrueFeatures(spamOut[1]) = { "grammarIssues", "knownSpamPatterns" }
    /\ spamOut[1].score = 45
    /\ ~spamOut[1].isSpam

\* the first n elements of s, or all of s when it has fewer
FirstOf(s, n) == [ i \in 1..(IF Len(s) < n THEN Len(s) ELSE n) |-> s[i] ]

\* the reasons as stated: the entries of the true features, in the fixed order
StatedReasons(c) ==
    LET all == << [ on |-> c.mismatch, text |-> "Sender domain mismatch detected",
                    items |-> << >> ],
                  [ on |-> c.links # << >>, text |-> "Suspicious links found",
                    items |-> FirstOf(c.links, 2) ],
                  [ on |-> c.words # << >>, text |-> "Urgency language detected",
                    items |-> FirstOf(c.words, 3) ],
                  [ on |-> c.grammar, text |-> "Common spam grammar patterns detected",
                    items |-> << >> ],
                  [ on |-> c.patterns, text |-> "Known spam/phishing patterns detected",
                    items |-> << >> ] >>
        kept == SelectSeq(all, LAMBDA x : x.on)
    IN  [ i \in 1..Len(kept) |-> [ text |-> kept[i].text, items |-> kept[i].items ] ]

\* C27: reasons has one entry per true feature and none for a false one, in
\* the order domain mismatch, links, urgency, grammar, patterns; the links
\* entry lists the first 2 matched links at most, the urgency entry the first
\* 3 matched phrases at most.
C27_ReasonsPerFeatureInOrder ==
    spamOut # Null =>
        /\ spamOut[1].reasons = StatedReasons(spamIn)
        /\ Len(spamOut[1].reasons) = Cardinality(TrueFeatures(spamOut[1]))
        /\ \A i \in 1..Len(spamOut[1].reasons) :
              /\ spamOut[1].reasons[i].text = "Suspicious links found"
                    => Len(spamOut[1].reasons[i].items) <= 2
              /\ spamOut[1].reasons[i].text = "Urgency language detected"
                    => Len(spamOut[1].reasons[i].items) <= 3

\* three links and four phrases matched, two and three of them listed, with
\* the mismatch entry before and the pattern entry after them
C27_Witness ==
    /\ spamOut # Null
    /\ Len(spamIn.links) = 3 /\ Len(spamIn.words) = 4
    /\ spamIn.mismatch /\ ~spamIn.grammar /\ spamIn.patterns
    /\ Len(spamOut[1].reasons) = 4
    /\ spamOut[1].reasons[2].items = << "link1", "link2" >>
    /\ spamOut[1].reasons[3].items = << "word1", "word2", "word3" >>

\* endDate comes from the duration: the first date candidate has no end time
\* that the extractor uses
EndFromDuration == ~(Len(calIn.dates) > 1 /\ calIn.dates[1].end # Null)

\* C29: for every returned event endDate is not earlier than date; when
\* endDate comes from a duration, endDate - date is exactly the derived
\* number of minutes, which is not negative; an explicit "0 hours" or, with
\* no hour mention, "0 minutes" gives endDate = date.
C29_EndNotBeforeStart ==
    \A i \in 1..Len(calOut) :
        calOut[i].event # Null =>
            LET ev == calOut[i].event[1]
            IN  /\ ev.endDate # Null
                /\ ev.endDate[1] >= ev.date
                /\ EndFromDuration =>
                      /\ ev.endDate[1] - ev.date = StatedDuration
                      /\ StatedDuration >= 0
                      /\ (StatedHours = << 0 >>
                          \/ (StatedHours = << >> /\ StatedMinutes = << 0 >>))
                            => ev.endDate[1] = ev.date

\* an event whose text says "0 minutes" and has no hour mention: it ends when
\* it starts
C29_Witness ==
    /\ Len(calOut) > 0
    /\ calOut[1].event # Null
    /\ EndFromDuration
    /\ StatedHours = << >> /\ StatedMinutes = << 0 >>
    /\ calOut[1].event[1].endDate = Some(calOut[1].event[1].date)

\* C30: with an hour mention in the text the duration is N * 60 for the
\* first such mention, whatever minute mentions there are and wherever they
\* stand; without one it is the N of the first minute mention; with neither
\* it is 60.  Mentions are never added up.
C30_OneMentionDecides ==
    durOut # Null =>
        LET hours   == MentionsOf(durIn, { "hour", "hrs" })
            minutes == MentionsOf(durIn, { "minutes", "min" })
        IN  durOut[1] = IF hours # << >> THEN hours[1] * 60
                        ELSE IF minutes # << >> THEN minutes[1]
                        ELSE 60

\* "30 minutes ... 1 hour": the hour mention decides although it comes
\* second, and the result is 60, not 90
C30_Witness ==
    /\ durOut = Some(60)
    /\ durIn = << "30", "minutes", "1", "hour" >>

\* how often the indicators of a list occur in a text, upper or lower case
Occurrences(indicators, text) ==
    Cardinality({ i \in 1..Len(text) :
                    \E x \in indicators : ToLower(text[i]) = ToLower(x) })

\* C23: the tone is formal when formal indicators occur more often in
\* subject and body than casual ones, casual when casual ones occur more
\* often, neutral on a tie; every listed indicator counts where it occurs,
\* the emoticon ":D" included.
C23_ToneByOccurrenceCounts ==
    toneOut # Null =>
        LET text   == toneIn.subject \o toneIn.body
            formal == Occurrences({ "dear", "regards", "kindly" }, text)
            casual == Occurrences({ "hey", "thanks!", ":)", ":D" }, text)
        IN  toneOut[1] = IF formal > casual THEN "formal"
                         ELSE IF casual > formal THEN "casual"
                         ELSE "neutral"

\* the <X> of the first pattern, from number k on, whose <X> (of its first
\* match, blanks at its ends apart) is longer than 2 and shorter than 100
\* characters
RECURSIVE StatedLocation(_, _)
StatedLocation(text, k) ==
    IF k > 4 THEN Null
    ELSE LET found == execAll(k, lowerCase(text), 1)
             x == trim(SubSeq(text, found[1].capture, found[1].to - 1))
         IN  IF found # << >> /\ Len(x) > 2 /\ Len(x) < 100
             THEN Some(x)
             ELSE StatedLocation(text, k + 1)

\* C28: extractLocation returns the captured <X> of the first pattern, in
\* the order phrase, label, link, invitation, whose <X> is longer than 2 and
\* shorter than 100 characters; a pattern whose <X> fails the bounds is
\* passed over; the location is absent when no pattern qualifies.
C28_LocationIsFirstQualifyingCapture ==
    locOut # Null => locOut[1] = StatedLocation(charsOf(locIn), 1)

====
